---- MODULE Spec2Model ----
(***************************************************************************)
(* A model of the SATAn benchmark runner (src/runner/src).                 *)
(*                                                                         *)
(* The module holds one state machine per subsystem, each with its own     *)
(* variables, initial condition and next-state relation:                   *)
(*   SpecFS       the filesystem claim protocol of Collector::FS and       *)
(*                WrappedPath (two hosts sharing one directory),           *)
(*   SpecExec     the run loop of LocalExecutor::execute,                  *)
(*   SpecBatched  the Batched storage adapter under concurrent workers,    *)
(*   SpecMain     the execute command of main.                             *)
(* A specification leaves the variables of the other subsystems at their   *)
(* idle values.                                                            *)
(***************************************************************************)
EXTENDS Integers, Sequences, FiniteSets, Bags, TLC

VARIABLES
    \* ---- filesystem claim protocol
    disk,        \* the file names present in the shared directory
    colPaths,    \* host -> Collector::Glob.paths of the host's inner collector
    fsPc,        \* host -> position of the host inside Collector::next (FS)
    fsCur,       \* host -> the inner path in hand between exists() and rename
    receipts,    \* host -> the WrappedPath values alive on the host
    yielded,     \* host -> every receipt path the host's collector has yielded
    attempted,   \* host -> the inner paths the host has called rename on
    released,    \* host -> the receipt paths the host has dropped
    \* ---- LocalExecutor::execute
    xCfg,        \* the test set: its iterations and its tasks
    xPc,         \* worker -> position in the task closure
    xTask,       \* worker -> the task in hand
    xIter,       \* worker -> the iteration counter of the for loop
    xQueue,      \* tasks not yet handed to a worker
    xRows,       \* the bag of rows committed to the runs table
    xTotal,      \* AtomicU64 total
    xProcessed,  \* AtomicU64 processed
    xIterations, \* AtomicU64 total_iterations
    xErrors,     \* AtomicU64 errors
    xState,      \* "running", "returned" (Ok(())) or "panicked"
    xLog,        \* run -> what happened to the run (history)
    xChildren,   \* the solver processes alive: [task, iter]
    xHeld,       \* path -> number of receipt handles alive in the executor
    xReleased,   \* the paths whose receipt has been released
    \* ---- Batched adapter
    bSize,       \* BatchedConnection.size
    bBuffer,     \* BatchedConnection.buffer
    bBufLock,    \* holder of the buffer's FairMutex
    bConnLock,   \* holder of the inner connection's FairMutex
    bPc,         \* worker -> position inside store
    bArg,        \* worker -> the bundle passed to the store call in progress
    bInner,      \* rows inserted into the inner adapter
    bFlushes,    \* every successful store_iter call: who issued it, how many bundles
    bCalls,      \* number of store calls received
    bErrs,       \* number of store calls that returned an error
    bState,      \* "open", "closed_ok", "closed_err"
    \* ---- main (execute command)
    mPc,         \* position inside main
    mAdapter,    \* the adapter variant built by ConnectionAdapter::load
    mBuffer,     \* the buffer of a Batched or Delayed adapter
    mRows,       \* rows persisted by the direct adapter
    mAccepted,   \* bundles for which store returned Ok
    mErrors,     \* runs of the execution that errored
    mFail,       \* the stage that failed, "none" if none did
    mExit,       \* the exit code of the process, -1 while it runs
    \* ---- RawIngestor::ingest
    iPc,         \* position inside ingest: "idle" between calls
    iProcs,      \* the ingestor processes spawned so far: their state
    iStatus,     \* status.success() of the wait in progress
    iResults,    \* what each ingest call returned
    iCall,       \* the call in progress: size of the input, the ingestor's conduct
    \* ---- the direct adapter (database/sqlite.rs, database/duckdb.rs)
    sDb,         \* the store: tables solvers, test_sets and runs
    sConn,       \* InnerConnection: the id maps solvers and test_sets, initialised
    sInits,      \* history: every init call, its config, outcome and id maps
    \* ---- the Delayed adapter (database/delayed.rs)
    dBuffer,     \* DelayedConnection::buffer
    dInner,      \* the calls the inner adapter has received, in order
    dStored,     \* history: the bundles store was called with, in order
    dState,      \* "open", or what close returned
    \* ---- Collector::join (collector.rs)
    jA, jB, jC,  \* three collectors
    jAB, jBC,    \* join(a, b) and join(b, c)
    jLeft,       \* join(join(a, b), c)
    jRight,      \* join(a, join(b, c))
    jPc,         \* "start", "inner" or "done"
    \* ---- building and draining the collectors (config.rs, collector.rs)
    cTests,      \* SolverConfig::tests: test set name -> CollectorConfig
    cMap,        \* the CollectorMap collectors() returned
    cName,       \* the test set whose collector is iterated
    cYield,      \* the items that collector has yielded, in order
    cPc,         \* "config", "checked", "rejected", "loaded" or "done"
    \* ---- Iterator for Collector: size_hint and next (collector.rs)
    gFs,         \* TRUE when the collector is Collector::FS { inner }
    gCol,        \* the collector, or the inner collector of an FS collector
    gFirst,      \* the collector as it was before the first call of next
    gYield,      \* the items next has returned, in order
    gCalls,      \* history: size_hint before each call of next, and its result
    \* ---- SolverConfig::preflight_checks (config.rs)
    pCfg,        \* the configuration and what the file system holds for its paths
    pFlag,       \* what preflight_checks returned (contains_error)
    pPc,         \* "config" before the call, "done" after it
    \* ---- the --solver and --test options of execute (main.rs)
    aSolvers,    \* the names of config.solvers
    aTests,      \* the names of config.tests
    aArgs,       \* ExecuteArgs: solvers and tests, each given or not
    aKept,       \* the names of config.solvers and config.tests after the filter
    aPc,         \* "loaded" after SolverConfig::load, "filtered" after the filter
    \* ---- Commands::Clean (main.rs)
    kStart,      \* the names in the directory when clean starts
    kDisk,       \* the names in the directory
    kList,       \* the paths the collector still holds
    kPc,         \* "walk", "done", or "panicked" after a failed rename
    \* ---- strip_prefix and reprefix (distributed/util.rs)
    tName,       \* a file name, byte by byte
    tPrefix,     \* the prefix it is given: "done" or "processing"
    tStripped,   \* strip_prefix(p ++ n, p, empty)
    tReprefixed, \* reprefix(p ++ n, p, q)
    tPc,         \* "start" or "done"
    lThreads,       \* size of the pool = number of logical CPUs
    lFree,          \* the shared AtomicUsize free_cores
    lSelected,      \* worker -> the value its fetch_sub returned
    lPinned,        \* worker -> the CPU it is pinned to
    lPc,            \* worker -> "spawned" | "selected" | "running" | "panicked"
    oAdapter,       \* which direct adapter is closing
    oCounter,       \* the loop's counter of failed calls
    oAttempts,      \* calls of the driver's close so far
    oLog,           \* the errors logged, in order
    oResult,        \* NoResult | OkResult | the ConnectionError returned
    oPc,            \* "idle" | "closing" | "returned"
    uLock,          \* holder of the FairMutex, or "none"
    uPc,            \* worker -> "idle" | "lock" | "inside"
    uOp,            \* worker -> the call it is making
    uInside,        \* workers running a call on the InnerConnection
    uDone,          \* calls that have returned
    uCalls,         \* calls made so far
    rCfg,           \* the configuration: solvers, test sets, selected solvers
    rArgs,          \* --solver and --test
    rIds,           \* the names in the adapter's id maps
    rLooked,        \* the (solver, test set) pairs looked up so far
    rCalls,         \* lookups made
    rPc,            \* "loaded" .. "running" | "exit1" | "panicked"
    vDisk,          \* the names in the shared directory
    vPaths,         \* test set -> the paths its collector still holds
    vYield,         \* test set -> the paths its collector yielded
    vReceipts,      \* test set -> the yielded paths not yet released
    vPc,            \* "load" | "run"
    wChild,         \* the solver being run
    wOutLeft,       \* what the child still has to write to stdout
    wErrLeft,       \* what the child still has to write to stderr
    wOutPipe,       \* what the stdout pipe holds
    wErrPipe,       \* what the stderr pipe holds
    wRead,          \* what the executor read from the two pipes
    wRecorded,      \* "none" | "exit" | "timeout"
    wPc             \* "spawn" | "wait" | "read" | "done"

fsVars == <<disk, colPaths, fsPc, fsCur, receipts, yielded, attempted, released>>
xVars == <<xCfg, xPc, xTask, xIter, xQueue, xRows, xTotal, xProcessed,
           xIterations, xErrors, xState, xLog, xChildren, xHeld, xReleased>>
bVars == <<bSize, bBuffer, bBufLock, bConnLock, bPc, bArg, bInner, bFlushes,
           bCalls, bErrs, bState>>
mVars == <<mPc, mAdapter, mBuffer, mRows, mAccepted, mErrors, mFail, mExit>>
iVars == <<iPc, iProcs, iStatus, iResults, iCall>>
sVars == <<sDb, sConn, sInits>>
dVars == <<dBuffer, dInner, dStored, dState>>
jVars == <<jA, jB, jC, jAB, jBC, jLeft, jRight, jPc>>
cVars == <<cTests, cMap, cName, cYield, cPc>>
gVars == <<gFs, gCol, gFirst, gYield, gCalls>>
pVars == <<pCfg, pFlag, pPc>>
aVars == <<aSolvers, aTests, aArgs, aKept, aPc>>
kVars == <<kStart, kDisk, kList, kPc>>
tVars == <<tName, tPrefix, tStripped, tReprefixed, tPc>>
lVars == <<lThreads, lFree, lSelected, lPinned, lPc>>
oVars == <<oAdapter, oCounter, oAttempts, oLog, oResult, oPc>>
uVars == <<uLock, uPc, uOp, uInside, uDone, uCalls>>
rVars == <<rCfg, rArgs, rIds, rLooked, rCalls, rPc>>
vVars == <<vDisk, vPaths, vYield, vReceipts, vPc>>
wVars == <<wChild, wOutLeft, wErrLeft, wOutPipe, wErrPipe, wRead, wRecorded, wPc>>
vars == <<fsVars, xVars, bVars, mVars, iVars, sVars, dVars, jVars, cVars, gVars, pVars, aVars, kVars, tVars, lVars, oVars, uVars, rVars, vVars, wVars>>

\* what the actions of one subsystem leave alone
fsRest == <<xVars, bVars, mVars, iVars, sVars, dVars, jVars, cVars, gVars, pVars, aVars, kVars, tVars, lVars, oVars, uVars, rVars, vVars, wVars>>
xRest == <<fsVars, bVars, mVars, iVars, sVars, dVars, jVars, cVars, gVars, pVars, aVars, kVars, tVars, lVars, oVars, uVars, rVars, vVars, wVars>>
bRest == <<fsVars, xVars, mVars, iVars, sVars, dVars, jVars, cVars, gVars, pVars, aVars, kVars, tVars, lVars, oVars, uVars, rVars, vVars, wVars>>
mRest == <<fsVars, xVars, bVars, iVars, sVars, dVars, jVars, cVars, gVars, pVars, aVars, kVars, tVars, lVars, oVars, uVars, rVars, vVars, wVars>>
iRest == <<fsVars, xVars, bVars, mVars, sVars, dVars, jVars, cVars, gVars, pVars, aVars, kVars, tVars, lVars, oVars, uVars, rVars, vVars, wVars>>
sRest == <<fsVars, xVars, bVars, mVars, iVars, dVars, jVars, cVars, gVars, pVars, aVars, kVars, tVars, lVars, oVars, uVars, rVars, vVars, wVars>>
dRest == <<fsVars, xVars, bVars, mVars, iVars, sVars, jVars, cVars, gVars, pVars, aVars, kVars, tVars, lVars, oVars, uVars, rVars, vVars, wVars>>
jRest == <<fsVars, xVars, bVars, mVars, iVars, sVars, dVars, cVars, gVars, pVars, aVars, kVars, tVars, lVars, oVars, uVars, rVars, vVars, wVars>>
cRest == <<fsVars, xVars, bVars, mVars, iVars, sVars, dVars, jVars, gVars, pVars, aVars, kVars, tVars, lVars, oVars, uVars, rVars, vVars, wVars>>
gRest == <<fsVars, xVars, bVars, mVars, iVars, sVars, dVars, jVars, cVars, pVars, aVars, kVars, tVars, lVars, oVars, uVars, rVars, vVars, wVars>>
pRest == <<fsVars, xVars, bVars, mVars, iVars, sVars, dVars, jVars, cVars, gVars, aVars, kVars, tVars, lVars, oVars, uVars, rVars, vVars, wVars>>
aRest == <<fsVars, xVars, bVars, mVars, iVars, sVars, dVars, jVars, cVars, gVars, pVars, kVars, tVars, lVars, oVars, uVars, rVars, vVars, wVars>>
kRest == <<fsVars, xVars, bVars, mVars, iVars, sVars, dVars, jVars, cVars, gVars, pVars, aVars, tVars, lVars, oVars, uVars, rVars, vVars, wVars>>
tRest == <<fsVars, xVars, bVars, mVars, iVars, sVars, dVars, jVars, cVars, gVars, pVars, aVars, kVars, lVars, oVars, uVars, rVars, vVars, wVars>>
lRest == <<fsVars, xVars, bVars, mVars, iVars, sVars, dVars, jVars, cVars, gVars, pVars, aVars, kVars, tVars, oVars, uVars, rVars, vVars, wVars>>
oRest == <<fsVars, xVars, bVars, mVars, iVars, sVars, dVars, jVars, cVars, gVars, pVars, aVars, kVars, tVars, lVars, uVars, rVars, vVars, wVars>>
uRest == <<fsVars, xVars, bVars, mVars, iVars, sVars, dVars, jVars, cVars, gVars, pVars, aVars, kVars, tVars, lVars, oVars, rVars, vVars, wVars>>
rRest == <<fsVars, xVars, bVars, mVars, iVars, sVars, dVars, jVars, cVars, gVars, pVars, aVars, kVars, tVars, lVars, oVars, uVars, vVars, wVars>>
vRest == <<fsVars, xVars, bVars, mVars, iVars, sVars, dVars, jVars, cVars, gVars, pVars, aVars, kVars, tVars, lVars, oVars, uVars, rVars, wVars>>
wRest == <<fsVars, xVars, bVars, mVars, iVars, sVars, dVars, jVars, cVars, gVars, pVars, aVars, kVars, tVars, lVars, oVars, uVars, rVars, vVars>>

(***************************************************************************)
(* Helpers                                                                 *)
(***************************************************************************)
Last(s) == s[Len(s)]

Front(s) == SubSeq(s, 1, Len(s) - 1)

\* the sequences that list every element of S exactly once
Perms(S) ==
    {s \in [1..Cardinality(S) -> S] : \A i, j \in 1..Cardinality(S) : s[i] = s[j] => i = j}

(***************************************************************************)
(* Filesystem claim protocol: Collector::FS, WrappedPath                   *)
(***************************************************************************)
\* number of input files in the shared directory
MaxFiles == 1

BaseNames == <<"a", "b", "c", "d">>

Bases == {BaseNames[i] : i \in 1..MaxFiles}

\* the two executor processes sharing the directory
Hosts == {"h1", "h2"}

\* A file name is a sequence of tokens: prefixes, the original name, and "~" for
\* each run of bytes that a rename read past the end of the name it was given.
PROCESSING_PREFIX == "[processing]_"

DONE_PREFIX == "[done]_"

JUNK == "~"

\* the original file a name belongs to
BaseOf(name) == CHOOSE b \in Bases : \E i \in 1..Len(name) : name[i] = b

\* filename.len() >= DONE_PREFIX.len() && filename[..DONE_PREFIX.len()] == DONE_PREFIX
HasDonePrefix(name) == Len(name) >= 1 /\ name[1] = DONE_PREFIX

\* joined_filename = PROCESSING_PREFIX ++ filename; new_path.set_file_name(joined)
ProcessingName(name) == <<PROCESSING_PREFIX>> \o name

\* done_file_name = DONE_PREFIX ++ file_name[PROCESSING_PREFIX.len()..]
DoneName(path) == <<DONE_PREFIX>> \o Tail(path)

\* Both call sites hand rename(2) path.as_os_str().as_bytes().as_ptr(): a pointer
\* to the bytes of the path, which carry no terminating NUL.  The C string the
\* kernel reads is the path followed by whatever bytes lie behind it in memory:
\* nothing ("exact"), or garbage behind the source, or behind the destination.
RenameReads == {"exact", "srcjunk", "dstjunk"}

\* rename(2): atomic; the file src gets the name dst (replacing a file of that
\* name), or the call fails with ENOENT and changes nothing.
SysRename(d, src, dst) ==
    IF src \in d THEN [ok |-> TRUE, disk |-> (d \ {src}) \cup {dst}]
    ELSE [ok |-> FALSE, disk |-> d]

\* the call as the kernel sees it under the read `how`
RawRename(d, src, dst, how) ==
    CASE how = "exact" -> SysRename(d, src, dst)
      [] how = "srcjunk" -> SysRename(d, src \o <<JUNK>>, dst)
      [] how = "dstjunk" -> SysRename(d, src, dst \o <<JUNK>>)

FSInit ==
    /\ disk = {<<b>> : b \in Bases}
    /\ colPaths = [h \in Hosts |-> <<>>]
    /\ fsPc = [h \in Hosts |-> "load"]
    /\ fsCur = [h \in Hosts |-> <<>>]
    /\ receipts = [h \in Hosts |-> {}]
    /\ yielded = [h \in Hosts |-> {}]
    /\ attempted = [h \in Hosts |-> {}]
    /\ released = [h \in Hosts |-> {}]

\* Collector::load (Glob) and Collector::fs: the walk is materialised once, at the
\* moment the host builds its collectors; its order is the directory's.
FSLoad(h) ==
    /\ fsPc[h] = "load"
    /\ \E listing \in Perms(disk) : colPaths' = [colPaths EXCEPT ![h] = listing]
    /\ fsPc' = [fsPc EXCEPT ![h] = "next"]
    /\ UNCHANGED <<disk, fsCur, receipts, yielded, attempted, released>>
    /\ UNCHANGED fsRest

\* a claimable test without the prefix test
ClaimableAny(d, path) == path \in d

\* the claimable test of Collector::next (FS): path.exists() and no [done]_ prefix
Claimable(d, path) == path \in d /\ ~HasDonePrefix(path)

\* Collector::next (FS), one turn of `while let Some(path) = inner.next()` up to
\* the rename: inner.next() is paths.pop(); then path.exists() and the prefix test.
FSPop(h) ==
    /\ fsPc[h] = "next"
    /\ colPaths[h] # <<>>
    /\ colPaths' = [colPaths EXCEPT ![h] = Front(@)]
    /\ IF Claimable(disk, Last(colPaths[h]))
       THEN /\ fsPc' = [fsPc EXCEPT ![h] = "rename"]
            /\ fsCur' = [fsCur EXCEPT ![h] = Last(colPaths[h])]
       ELSE UNCHANGED <<fsPc, fsCur>>
    /\ UNCHANGED <<disk, receipts, yielded, attempted, released>>
    /\ UNCHANGED fsRest

\* Collector::next (FS): inner.next() returned None
FSExhausted(h) ==
    /\ fsPc[h] = "next"
    /\ colPaths[h] = <<>>
    /\ fsPc' = [fsPc EXCEPT ![h] = "none"]
    /\ UNCHANGED <<disk, colPaths, fsCur, receipts, yielded, attempted, released>>
    /\ UNCHANGED fsRest

\* a claim that yields the path whatever its rename returned
ClaimYieldsAlways(ok, newPath) == {newPath}

\* what the claim does with the result of its rename: result == 0 yields
\* PathValue::Wrapped(WrappedPath::new(new_path)), any errno skips the path
ClaimYields(ok, newPath) == IF ok THEN {newPath} ELSE {}

\* Collector::next (FS): the rename of the path to its [processing]_ name
FSClaim(h) ==
    /\ fsPc[h] = "rename"
    /\ \E how \in RenameReads :
         LET newPath == ProcessingName(fsCur[h])
             res == RawRename(disk, fsCur[h], newPath, how)
         IN /\ disk' = res.disk
            /\ receipts' = [receipts EXCEPT ![h] = @ \cup ClaimYields(res.ok, newPath)]
            /\ yielded' = [yielded EXCEPT ![h] = @ \cup ClaimYields(res.ok, newPath)]
    /\ attempted' = [attempted EXCEPT ![h] = @ \cup {fsCur[h]}]
    /\ fsPc' = [fsPc EXCEPT ![h] = "next"]
    /\ fsCur' = [fsCur EXCEPT ![h] = <<>>]
    /\ UNCHANGED <<colPaths, released>>
    /\ UNCHANGED fsRest

\* WrappedPath::drop: rename to the [done]_ name; an error is logged and dropped
FSRelease(h) ==
    /\ \E path \in receipts[h], how \in RenameReads :
         /\ disk' = RawRename(disk, path, DoneName(path), how).disk
         /\ receipts' = [receipts EXCEPT ![h] = @ \ {path}]
         /\ released' = [released EXCEPT ![h] = @ \cup {path}]
    /\ UNCHANGED <<colPaths, fsPc, fsCur, yielded, attempted>>
    /\ UNCHANGED fsRest

FSNext ==
    \E h \in Hosts : FSLoad(h) \/ FSPop(h) \/ FSExhausted(h) \/ FSClaim(h) \/ FSRelease(h)

(***************************************************************************)
(* LocalExecutor::execute: the run loop                                    *)
(***************************************************************************)
\* largest iteration count of the test set
MaxIter == 2

\* the (test set, solver, path) tasks of the product built by iproduct!
Tasks == {"t1", "t2"}

\* most runs (tasks times iterations) a configuration asks for
MaxTotalRuns == 4

\* the configurations: the iteration count of the test set and the tasks its
\* solvers and paths give rise to
XConfigs ==
    {cfg \in [iterations : 0..MaxIter, tasks : (SUBSET Tasks) \ {{}}] :
        Cardinality(cfg.tasks) * cfg.iterations <= MaxTotalRuns}

\* the threads of the pool
Workers == {"w1", "w2"}

Unknown == 0

\* a failure bundle that reports a runtime
FailedWithRuntime ==
    [runtime |-> 1, satisfiable |-> Unknown, parse_time |-> 0, memory_usage |-> 0,
     restarts |-> 0, conflicts |-> 0, propagations |-> 0, conflict_literals |-> 0,
     number_of_variables |-> 0, number_of_clauses |-> 0]

\* TestMetrics::failed()
Failed ==
    [runtime |-> 0, satisfiable |-> Unknown, parse_time |-> 0, memory_usage |-> 0,
     restarts |-> 0, conflicts |-> 0, propagations |-> 0, conflict_literals |-> 0,
     number_of_variables |-> 0, number_of_clauses |-> 0]

\* the metrics documents an ingestor may return for a run
SomeMetrics ==
    {[runtime |-> 7, satisfiable |-> 1, parse_time |-> 1, memory_usage |-> 3,
      restarts |-> 0, conflicts |-> 2, propagations |-> 5, conflict_literals |-> 4,
      number_of_variables |-> 3, number_of_clauses |-> 6]}

\* lock.transaction(), metrics.insert(&mut tx, context) and tx.commit() each
\* end Ok or Err.  (self.connection.lock() fails only on a poisoned mutex, that
\* is after a panic inside the guarded region, which holds no panicking call.)
StoreOutcomes == {"ok", "tx_err", "insert_err", "commit_err"}

\* the row committed by a store that went through; task, iter and branch are
\* bookkeeping of the model (which run, and which branch of it, wrote the row)
Row(task, iter, metrics, branch) ==
    [task |-> task, iter |-> iter, metrics |-> metrics, branch |-> branch]

\* one entry of the run history: the branch the run took ("spawn_err", "exit"
\* or "timeout"), how it ended, the errors counted for it, whether the child
\* was killed and whether the ingestor was called
LogEntry(task, iter, branch, what, errs, killed, ingested) ==
    [task |-> task, iter |-> iter, branch |-> branch, what |-> what, errs |-> errs,
     killed |-> killed, ingested |-> ingested]

\* the input paths of the test set: one file, on which both solvers run
Paths == {"p"}

\* the path of a task
PathOf(task) == "p"

\* the tasks among `tasks` that use `path`, each holding a handle on its receipt
Holders(path, tasks) == {t \in tasks : PathOf(t) = path}

\* a task ends and its handle on the receipt of `path` goes: the receipt is
\* released when that was the last handle
ReleasedBy(held, path) == IF held[path] = 1 THEN {path} ELSE {}

\* the counters start at 0; total is raised by paths.len() * set.solvers.len()
\* when the test set's paths are walked, before its first task is handed out
XInit ==
    /\ xCfg \in XConfigs
    /\ xPc = [w \in Workers |-> "idle"]
    /\ xTask = [w \in Workers |-> "none"]
    /\ xIter = [w \in Workers |-> 0]
    /\ xQueue = xCfg.tasks
    /\ xRows = EmptyBag
    /\ xTotal = Cardinality(xCfg.tasks)
    /\ xProcessed = 0
    /\ xIterations = 0
    /\ xErrors = 0
    /\ xState = "running"
    /\ xLog = {}
    /\ xChildren = {}
    /\ xHeld = [path \in Paths |-> Cardinality(Holders(path, xCfg.tasks))]
    /\ xReleased = {}

\* par_bridge hands the next item of the task iterator to a free worker
XTake(w) ==
    /\ xState = "running"
    /\ xPc[w] = "idle"
    /\ \E t \in xQueue :
         /\ xQueue' = xQueue \ {t}
         /\ xTask' = [xTask EXCEPT ![w] = t]
    /\ xIter' = [xIter EXCEPT ![w] = 0]
    /\ xPc' = [xPc EXCEPT ![w] = "loop"]
    /\ UNCHANGED <<xCfg, xRows, xTotal, xProcessed, xIterations, xErrors, xState, xLog,
                   xChildren, xHeld, xReleased>>
    /\ UNCHANGED xRest

\* `for iteration in 0..set.iterations` is over: processed.fetch_add(1)
XTaskDone(w) ==
    /\ xState = "running"
    /\ xPc[w] = "loop"
    /\ xIter[w] >= xCfg.iterations
    /\ xProcessed' = xProcessed + 1
    /\ xPc' = [xPc EXCEPT ![w] = "idle"]
    /\ xTask' = [xTask EXCEPT ![w] = "none"]
    /\ xHeld' = [xHeld EXCEPT ![PathOf(xTask[w])] = @ - 1]
    /\ xReleased' = xReleased \cup ReleasedBy(xHeld, PathOf(xTask[w]))
    /\ UNCHANGED <<xCfg, xIter, xQueue, xRows, xTotal, xIterations, xErrors, xState, xLog,
                   xChildren>>
    /\ UNCHANGED xRest

\* Command::new(..).spawn(): Err(e) counts an error and ends the iteration
XSpawn(w) ==
    /\ xState = "running"
    /\ xPc[w] = "loop"
    /\ xIter[w] < xCfg.iterations
    /\ \E spawned \in BOOLEAN :
         IF spawned
         THEN /\ xPc' = [xPc EXCEPT ![w] = "wait"]
              /\ xChildren' = xChildren \cup {[task |-> xTask[w], iter |-> xIter[w]]}
              /\ UNCHANGED <<xIter, xErrors, xIterations, xLog>>
         ELSE /\ xErrors' = xErrors + 1
              /\ xIterations' = xIterations + 1
              /\ xLog' = xLog \cup
                     {LogEntry(xTask[w], xIter[w], "spawn_err", "spawn_err", 1, FALSE, FALSE)}
              /\ xIter' = [xIter EXCEPT ![w] = @ + 1]
              /\ UNCHANGED <<xPc, xChildren>>
    /\ UNCHANGED <<xCfg, xTask, xQueue, xRows, xTotal, xProcessed, xState, xHeld, xReleased>>
    /\ UNCHANGED xRest

\* The tail shared by both branches of wait_timeout: the transaction, the insert
\* and the commit of `metrics`; tx_err leaves through `continue`, which skips
\* total_iterations.fetch_add(1).
XStore(w, metrics, branch, outcome) ==
    /\ xRows' = IF outcome = "ok"
                THEN xRows (+) SetToBag({Row(xTask[w], xIter[w], metrics, branch)})
                ELSE xRows
    /\ xErrors' = IF outcome = "ok" THEN xErrors ELSE xErrors + 1
    /\ xIterations' = IF outcome = "tx_err" THEN xIterations ELSE xIterations + 1
    /\ xLog' = xLog \cup
           {LogEntry(xTask[w], xIter[w], branch,
                     IF outcome = "ok" THEN "stored" ELSE "store_err",
                     IF outcome = "ok" THEN 0 ELSE 1,
                     branch = "timeout", branch = "exit")}

\* an Err(e) arm that logs the error without counting it
XIngestErrUncounted(w) ==
    /\ xIterations' = xIterations + 1
    /\ xLog' = xLog \cup
           {LogEntry(xTask[w], xIter[w], "exit", "ingest_err", 0, FALSE, TRUE)}
    /\ UNCHANGED <<xRows, xErrors>>

\* the Err(e) arm of ingest(output): the error is logged and counted, nothing
\* is stored, the iteration ends
XIngestErr(w) ==
    /\ xErrors' = xErrors + 1
    /\ xIterations' = xIterations + 1
    /\ xLog' = xLog \cup
           {LogEntry(xTask[w], xIter[w], "exit", "ingest_err", 1, FALSE, TRUE)}
    /\ UNCHANGED xRows

\* wait_timeout returned Some(status): read both pipes to the end (a read that
\* is not valid UTF-8 panics in expect), ingest, store the metrics
XExit(w) ==
    /\ xState = "running"
    /\ xPc[w] = "wait"
    /\ \E utf8 \in BOOLEAN, ingested \in BOOLEAN, metrics \in SomeMetrics,
          outcome \in StoreOutcomes :
         IF ~utf8
         THEN /\ xState' = "panicked"
              /\ xLog' = xLog \cup
                     {LogEntry(xTask[w], xIter[w], "exit", "panic", 0, FALSE, FALSE)}
              /\ UNCHANGED <<xRows, xErrors, xIterations, xIter, xPc>>
         ELSE /\ IF ingested THEN XStore(w, metrics, "exit", outcome) ELSE XIngestErr(w)
              /\ xIter' = [xIter EXCEPT ![w] = @ + 1]
              /\ xPc' = [xPc EXCEPT ![w] = "loop"]
              /\ UNCHANGED xState
    /\ xChildren' = xChildren \ {[task |-> xTask[w], iter |-> xIter[w]]}
    /\ UNCHANGED <<xCfg, xTask, xQueue, xTotal, xProcessed, xHeld, xReleased>>
    /\ UNCHANGED xRest

\* a timeout arm that leaves the child running
NoKill(children, child) == children

\* child.kill().unwrap_or_log()
Kill(children, child) == children \ {child}

\* wait_timeout returned None: child.kill(), then TestMetrics::failed() is stored
XTimeout(w) ==
    /\ xState = "running"
    /\ xPc[w] = "wait"
    /\ xChildren' = Kill(xChildren, [task |-> xTask[w], iter |-> xIter[w]])
    /\ \E outcome \in StoreOutcomes : XStore(w, Failed, "timeout", outcome)
    /\ xIter' = [xIter EXCEPT ![w] = @ + 1]
    /\ xPc' = [xPc EXCEPT ![w] = "loop"]
    /\ UNCHANGED <<xCfg, xTask, xQueue, xTotal, xProcessed, xState, xHeld, xReleased>>
    /\ UNCHANGED xRest

\* for_each is over: the summary is logged and execute returns Ok(())
XReturn ==
    /\ xState = "running"
    /\ xQueue = {}
    /\ \A w \in Workers : xPc[w] = "idle"
    /\ xState' = "returned"
    /\ UNCHANGED <<xCfg, xPc, xTask, xIter, xQueue, xRows, xTotal, xProcessed,
                   xIterations, xErrors, xLog, xChildren, xHeld, xReleased>>
    /\ UNCHANGED xRest

XNext ==
    \/ \E w \in Workers : XTake(w) \/ XTaskDone(w) \/ XSpawn(w) \/ XExit(w) \/ XTimeout(w)
    \/ XReturn

(***************************************************************************)
(* BatchedConnection: store and close                                      *)
(***************************************************************************)
\* largest configured batch size
MaxBatch == 4

\* largest number of store calls of one execution
MaxStores == 10

\* bundles are numbered from 1 in the order their store calls are received
\* BatchedConnection::load rejects size <= 1
BInit ==
    /\ bSize \in {size \in 0..MaxBatch : ~(size <= 1)}
    /\ bBuffer = <<>>
    /\ bBufLock = "none"
    /\ bConnLock = "none"
    /\ bPc = [w \in Workers |-> "idle"]
    /\ bArg = [w \in Workers |-> 0]
    /\ bInner = <<>>
    /\ bFlushes = <<>>
    /\ bCalls = 0
    /\ bErrs = 0
    /\ bState = "open"

\* a worker enters store(metrics, solver, test_set, target)
BStoreCall(w) ==
    /\ bState = "open"
    /\ bPc[w] = "idle"
    /\ bCalls < MaxStores
    /\ bCalls' = bCalls + 1
    /\ bArg' = [bArg EXCEPT ![w] = bCalls + 1]
    /\ bPc' = [bPc EXCEPT ![w] = "lock_buffer"]
    /\ UNCHANGED <<bSize, bBuffer, bBufLock, bConnLock, bInner, bFlushes, bErrs, bState>>
    /\ UNCHANGED bRest

\* let mut buffer = self.buffer.lock_arc()
BLockBuffer(w) ==
    /\ bPc[w] = "lock_buffer"
    /\ bBufLock = "none"
    /\ bBufLock' = w
    /\ bPc' = [bPc EXCEPT ![w] = "check"]
    /\ UNCHANGED <<bSize, bBuffer, bConnLock, bArg, bInner, bFlushes, bCalls, bErrs, bState>>
    /\ UNCHANGED bRest

\* the test that decides between the flush and the push
BufferFull(buffer, size) == Len(buffer) = size

\* `if buffer.len() as u32 == self.size` fails: the else branch pushes the
\* bundle, store returns Ok(i32::MIN) and the buffer guard is dropped
BPush(w) ==
    /\ bPc[w] = "check"
    /\ ~BufferFull(bBuffer, bSize)
    /\ bBuffer' = Append(bBuffer, bArg[w])
    /\ bBufLock' = "none"
    /\ bArg' = [bArg EXCEPT ![w] = 0]
    /\ bPc' = [bPc EXCEPT ![w] = "idle"]
    /\ UNCHANGED <<bSize, bConnLock, bInner, bFlushes, bCalls, bErrs, bState>>
    /\ UNCHANGED bRest

\* the test holds: the worker goes for the inner connection's lock
BFull(w) ==
    /\ bPc[w] = "check"
    /\ BufferFull(bBuffer, bSize)
    /\ bPc' = [bPc EXCEPT ![w] = "lock_connection"]
    /\ UNCHANGED <<bSize, bBuffer, bBufLock, bConnLock, bArg, bInner, bFlushes,
                   bCalls, bErrs, bState>>
    /\ UNCHANGED bRest

\* self.connection.lock_arc()
BLockConnection(w) ==
    /\ bPc[w] = "lock_connection"
    /\ bConnLock = "none"
    /\ bConnLock' = w
    /\ bPc' = [bPc EXCEPT ![w] = "flush"]
    /\ UNCHANGED <<bSize, bBuffer, bBufLock, bArg, bInner, bFlushes, bCalls, bErrs, bState>>
    /\ UNCHANGED bRest

\* store_iter(buffer.iter()) on the inner adapter: one transaction, all rows
\* or none
StoreIter(inner, bundles, ok) == IF ok THEN inner \o bundles ELSE inner

\* a flush that clears the buffer whatever store_iter returned
FlushedBufferCleared(buffer, ok) == <<>>

\* `store_iter(buffer.iter())?; buffer.clear()`: the `?` returns before the
\* clear when store_iter failed
FlushedBuffer(buffer, ok) == IF ok THEN <<>> ELSE buffer

\* a flush after which the worker still holds the buffer's lock
BFlushKeepsBuffer(w) ==
    /\ bPc[w] = "flush"
    /\ \E ok \in BOOLEAN :
         /\ bInner' = StoreIter(bInner, bBuffer, ok)
         /\ bBuffer' = FlushedBuffer(bBuffer, ok)
         /\ bFlushes' = IF ok THEN Append(bFlushes, [by |-> "store", n |-> Len(bBuffer)])
                        ELSE bFlushes
         /\ bErrs' = IF ok THEN bErrs ELSE bErrs + 1
    /\ bConnLock' = "none"
    /\ bArg' = [bArg EXCEPT ![w] = 0]
    /\ bPc' = [bPc EXCEPT ![w] = "idle"]
    /\ UNCHANGED <<bSize, bCalls, bState, bBufLock>>
    /\ UNCHANGED bRest

\* .store_iter(buffer.iter())?; buffer.clear(): on Ok the buffer is cleared and,
\* the push being in the else branch, the bundle of this call goes nowhere; on
\* Err the `?` returns the error with the buffer as it was.  Both guards drop.
BFlush(w) ==
    /\ bPc[w] = "flush"
    /\ \E ok \in BOOLEAN :
         /\ bInner' = StoreIter(bInner, bBuffer, ok)
         /\ bBuffer' = FlushedBuffer(bBuffer, ok)
         /\ bFlushes' = IF ok THEN Append(bFlushes, [by |-> "store", n |-> Len(bBuffer)])
                        ELSE bFlushes
         /\ bErrs' = IF ok THEN bErrs ELSE bErrs + 1
    /\ bBufLock' = "none"
    /\ bConnLock' = "none"
    /\ bArg' = [bArg EXCEPT ![w] = 0]
    /\ bPc' = [bPc EXCEPT ![w] = "idle"]
    /\ UNCHANGED <<bSize, bCalls, bState>>
    /\ UNCHANGED bRest

\* close(self), called when no store is in progress: the residual buffer goes
\* through store_iter (`?` on its error), then the inner connection is closed
BClose ==
    /\ bState = "open"
    /\ \A w \in Workers : bPc[w] = "idle"
    /\ \E flushed \in BOOLEAN, closed \in BOOLEAN :
         IF Len(bBuffer) > 0
         THEN /\ bInner' = StoreIter(bInner, bBuffer, flushed)
              /\ bFlushes' = IF flushed
                             THEN Append(bFlushes, [by |-> "close", n |-> Len(bBuffer)])
                             ELSE bFlushes
              /\ bState' = IF flushed /\ closed THEN "closed_ok" ELSE "closed_err"
         ELSE /\ UNCHANGED <<bInner, bFlushes>>
              /\ bState' = IF closed THEN "closed_ok" ELSE "closed_err"
    /\ UNCHANGED <<bSize, bBuffer, bBufLock, bConnLock, bPc, bArg, bCalls, bErrs>>
    /\ UNCHANGED bRest

BNext ==
    \/ \E w \in Workers :
         \/ BStoreCall(w) \/ BLockBuffer(w) \/ BPush(w) \/ BFull(w)
         \/ BLockConnection(w) \/ BFlush(w)
    \/ BClose

(***************************************************************************)
(* main: the execute command                                               *)
(***************************************************************************)
\* largest number of runs of one execution of the command
MaxRuns == 3

\* database.delayed wins over database.batched; neither gives the direct adapter
AdapterKinds == {"direct", "batched", "delayed"}

MInit ==
    /\ mPc = "load_config"
    /\ mAdapter = [kind |-> "none", size |-> -1, state |-> "unloaded"]
    /\ mBuffer = <<>>
    /\ mRows = <<>>
    /\ mAccepted = {}
    /\ mErrors = 0
    /\ mFail = "none"
    /\ mExit = -1

\* process::exit(1) after the stage `stage` failed
MExitOne(stage) ==
    /\ mFail' = stage
    /\ mExit' = 1
    /\ mPc' = "exited"

\* SolverConfig::load: exit(1) when the file is missing, unreadable or no valid YAML
MLoadConfig ==
    /\ mPc = "load_config"
    /\ \E ok \in BOOLEAN :
         IF ok THEN mPc' = "preflight" /\ UNCHANGED <<mFail, mExit>>
         ELSE MExitOne("config")
    /\ UNCHANGED <<mAdapter, mBuffer, mRows, mAccepted, mErrors>>
    /\ UNCHANGED mRest

\* if config.preflight_checks() { exit(1) }
MPreflight ==
    /\ mPc = "preflight"
    /\ \E failed \in BOOLEAN :
         IF failed THEN MExitOne("preflight")
         ELSE mPc' = "load_adapter" /\ UNCHANGED <<mFail, mExit>>
    /\ UNCHANGED <<mAdapter, mBuffer, mRows, mAccepted, mErrors>>
    /\ UNCHANGED mRest

\* database.batched is absent
NoBatch == -1

\* ConnectionAdapter::load: Delayed if config.delayed, else Batched if
\* config.batched is given (BatchedConnection::load rejects size <= 1), else the
\* direct adapter; Err exits with 1
MLoadAdapter ==
    /\ mPc = "load_adapter"
    /\ \E opened \in BOOLEAN, delayed \in BOOLEAN, batched \in NoBatch..MaxBatch :
         IF opened /\ (delayed \/ batched = NoBatch \/ ~(batched <= 1))
         THEN /\ mAdapter' = [kind |-> IF delayed THEN "delayed"
                                       ELSE IF batched # NoBatch THEN "batched"
                                       ELSE "direct",
                              size |-> IF delayed THEN NoBatch ELSE batched,
                              state |-> "open"]
              /\ mPc' = "init_adapter"
              /\ UNCHANGED <<mFail, mExit>>
         ELSE MExitOne("adapter_load") /\ UNCHANGED mAdapter
    /\ UNCHANGED <<mBuffer, mRows, mAccepted, mErrors>>
    /\ UNCHANGED mRest

\* connection.init(&config, args.benchmark, sub_args.comment): Err exits with 1
MInitAdapter ==
    /\ mPc = "init_adapter"
    /\ \E ok \in BOOLEAN :
         IF ok THEN mPc' = "load_ingestors" /\ UNCHANGED <<mFail, mExit>>
         ELSE MExitOne("adapter_init")
    /\ UNCHANGED <<mAdapter, mBuffer, mRows, mAccepted, mErrors>>
    /\ UNCHANGED mRest

\* cloned_config.load_ingestors(): Err exits with 1
MLoadIngestors ==
    /\ mPc = "load_ingestors"
    /\ \E ok \in BOOLEAN :
         IF ok THEN mPc' = "collectors" /\ UNCHANGED <<mFail, mExit>>
         ELSE MExitOne("ingestors")
    /\ UNCHANGED <<mAdapter, mBuffer, mRows, mAccepted, mErrors>>
    /\ UNCHANGED mRest

\* config.collectors(): Err exits with 1
MCollectors ==
    /\ mPc = "collectors"
    /\ \E ok \in BOOLEAN :
         IF ok THEN mPc' = "load_executor" /\ UNCHANGED <<mFail, mExit>>
         ELSE MExitOne("collectors")
    /\ UNCHANGED <<mAdapter, mBuffer, mRows, mAccepted, mErrors>>
    /\ UNCHANGED mRest

\* what main does with Err(error) of LocalExecutor::load: it logs "Executor
\* failed to initialize", falls out of the match and returns Ok(())
ExecutorLoadFailedExit == 0

\* executors::LocalExecutor::load(connection, config, ingestors, collectors)
\* gives Result<Self, ExecutorError>; main matches on both
MLoadExecutor ==
    /\ mPc = "load_executor"
    /\ \E ok \in BOOLEAN :
         IF ok THEN mPc' = "build_pool" /\ UNCHANGED <<mFail, mExit, mAdapter>>
         ELSE /\ mFail' = "executor_load"
              /\ mExit' = ExecutorLoadFailedExit
              /\ mPc' = "exited"
              /\ mAdapter' = [mAdapter EXCEPT !.state = "dropped"]
    /\ UNCHANGED <<mBuffer, mRows, mAccepted, mErrors>>
    /\ UNCHANGED mRest

\* the exit status of a Rust process whose main thread panicked
PanicExit == 101

\* execute: builder.num_threads(n).build_global().unwrap_or_log() panics when
\* the pool cannot be built
MBuildPool ==
    /\ mPc = "build_pool"
    /\ \E ok \in BOOLEAN :
         IF ok THEN mPc' = "execute" /\ UNCHANGED <<mFail, mExit, mAdapter>>
         ELSE /\ mFail' = "pool"
              /\ mExit' = PanicExit
              /\ mPc' = "exited"
              /\ mAdapter' = [mAdapter EXCEPT !.state = "dropped"]
    /\ UNCHANGED <<mBuffer, mRows, mAccepted, mErrors>>
    /\ UNCHANGED mRest

\* ConnectionAdapter::store on the adapter built by load: the direct adapter
\* inserts the row, Delayed pushes it on its buffer, Batched as BatchedConnection
\* ::store does.  `ok` is the outcome of the inner insert, where one is made.
AdapterStore(adapter, buffer, rows, bundle, ok) ==
    CASE adapter.kind = "direct" ->
           [buffer |-> buffer,
            rows |-> IF ok THEN Append(rows, bundle) ELSE rows,
            accepted |-> ok]
      [] adapter.kind = "delayed" ->
           [buffer |-> Append(buffer, bundle), rows |-> rows, accepted |-> TRUE]
      [] adapter.kind = "batched" ->
           IF BufferFull(buffer, adapter.size)
           THEN [buffer |-> IF ok THEN <<>> ELSE buffer,
                 rows |-> StoreIter(rows, buffer, ok),
                 accepted |-> ok]
           ELSE [buffer |-> Append(buffer, bundle), rows |-> rows, accepted |-> TRUE]

\* one run of the execution ends: its bundle goes to store, or the run errors
MRun ==
    /\ mPc = "execute"
    /\ Cardinality(mAccepted) + mErrors < MaxRuns
    /\ \E errored \in BOOLEAN, ok \in BOOLEAN :
         LET bundle == Cardinality(mAccepted) + mErrors + 1
             res == AdapterStore(mAdapter, mBuffer, mRows, bundle, ok)
         IN IF errored \/ ~res.accepted
            THEN /\ mErrors' = mErrors + 1
                 /\ UNCHANGED <<mBuffer, mRows, mAccepted>>
            ELSE /\ mBuffer' = res.buffer
                 /\ mRows' = res.rows
                 /\ mAccepted' = mAccepted \cup {bundle}
                 /\ UNCHANGED mErrors
    /\ UNCHANGED <<mPc, mAdapter, mFail, mExit>>
    /\ UNCHANGED mRest

\* what the end of execute and of main do with the adapter: execute logs the
\* summary and returns Ok(()), main logs "Finished execution" and returns
\* Ok(()); the adapter goes out of scope
AdapterAtExit(adapter) == [adapter EXCEPT !.state = "dropped"]

\* execute returns Ok(()) whatever the error counter; main returns Ok(())
MFinish ==
    /\ mPc = "execute"
    /\ mAdapter' = AdapterAtExit(mAdapter)
    /\ mExit' = 0
    /\ mPc' = "exited"
    /\ UNCHANGED <<mBuffer, mRows, mAccepted, mErrors, mFail>>
    /\ UNCHANGED mRest

MNext ==
    \/ MLoadConfig \/ MPreflight \/ MLoadAdapter \/ MInitAdapter \/ MLoadIngestors
    \/ MCollectors \/ MLoadExecutor \/ MBuildPool \/ MRun \/ MFinish

(***************************************************************************)
(* RawIngestor::ingest: one ingestor process per call                      *)
(***************************************************************************)
\* largest number of ingest calls
MaxIngests == 3

\* the calls of ingest: whether output.stdout is larger than a pipe holds,
\* whether the ingestor reads its stdin, and whether it writes more than a
\* pipe holds before it exits
Calls == [big : BOOLEAN, reads : BOOLEAN, floods : BOOLEAN]

NoCall == [big |-> FALSE, reads |-> TRUE, floods |-> FALSE]

IInit ==
    /\ iPc = "idle"
    /\ iProcs = <<>>
    /\ iStatus = FALSE
    /\ iResults = <<>>
    /\ iCall = NoCall

\* Command::new(&self.ingestor)...spawn(): Err(e) returns SpawnIngestor(e)
IIngest ==
    /\ iPc = "idle"
    /\ Len(iResults) < MaxIngests
    /\ iCall' \in Calls
    /\ \E spawned \in BOOLEAN :
         IF spawned
         THEN /\ iProcs' = Append(iProcs, "running")
              /\ iPc' = "write"
              /\ UNCHANGED iResults
         ELSE /\ iResults' = Append(iResults, [result |-> "SpawnIngestor", proc |-> 0])
              /\ UNCHANGED <<iProcs, iPc>>
    /\ UNCHANGED iStatus
    /\ UNCHANGED iRest

\* write_all returns once every byte is in the pipe: the ingestor reads them,
\* or they fit the pipe's buffer; otherwise it blocks
WriteCompletes(call) == call.reads \/ ~call.big

\* stdin.write_all(output.stdout.as_bytes()).expect(..); drop(stdin): a write
\* to an ingestor that has exited fails with EPIPE, and expect panics
IWriteStdin ==
    /\ iPc = "write"
    /\ IF Last(iProcs) = "running"
         THEN WriteCompletes(iCall) /\ iPc' = "wait"
         ELSE iPc' = "panicked"
    /\ UNCHANGED <<iProcs, iStatus, iResults, iCall>>
    /\ UNCHANGED iRest

\* an ingestor process ends on its own; the one of the call in progress
\* cannot while it is blocked writing output that ingest reads after the wait
IChildExit ==
    /\ \E p \in DOMAIN iProcs, how \in {"exited_ok", "exited_fail"} :
         /\ iProcs[p] = "running"
         /\ (p = Len(iProcs) /\ iPc \in {"write", "wait"}) => ~iCall.floods
         /\ iProcs' = [iProcs EXCEPT ![p] = how]
    /\ UNCHANGED <<iPc, iStatus, iResults, iCall>>
    /\ UNCHANGED iRest

\* handle.wait_timeout(self.timeout) gives Some(status): the child has exited
\* and is reaped
IWaitSome ==
    /\ iPc = "wait"
    /\ Last(iProcs) \in {"exited_ok", "exited_fail"}
    /\ iStatus' = (Last(iProcs) = "exited_ok")
    /\ iProcs' = [iProcs EXCEPT ![Len(iProcs)] = "reaped"]
    /\ iPc' = "read"
    /\ UNCHANGED iResults
    /\ UNCHANGED iCall
    /\ UNCHANGED iRest

\* what the None arm does to the child before `return Err(ChildTimeout)`: the
\* handle goes out of scope, and dropping a Child neither kills nor waits
TimedOutChild(state) == state

\* handle.wait_timeout(self.timeout) gives None: return Err(ChildTimeout)
IWaitNone ==
    /\ iPc = "wait"
    /\ Last(iProcs) = "running"
    /\ iProcs' = [iProcs EXCEPT ![Len(iProcs)] = TimedOutChild(@)]
    /\ iResults' = Append(iResults, [result |-> "ChildTimeout", proc |-> Len(iProcs)])
    /\ iPc' = "idle"
    /\ UNCHANGED iStatus
    /\ UNCHANGED iCall
    /\ UNCHANGED iRest

\* the rest of ingest: stderr is read when the status is a failure, stdout is
\* read to a String (expect panics on invalid UTF-8) and parsed as YAML
IRead ==
    /\ iPc = "read"
    /\ \E utf8 \in BOOLEAN, parsed \in BOOLEAN :
         IF ~utf8
         THEN iPc' = "panicked" /\ UNCHANGED iResults
         ELSE /\ iResults' = Append(iResults,
                     [result |-> IF parsed THEN "Ok" ELSE "DeserializeIngestor",
                      proc |-> Len(iProcs)])
              /\ iPc' = "idle"
    /\ UNCHANGED <<iProcs, iStatus>>
    /\ UNCHANGED iCall
    /\ UNCHANGED iRest

INext == IIngest \/ IWriteStdin \/ IChildExit \/ IWaitSome \/ IWaitNone \/ IRead

(***************************************************************************)
(* The direct adapter: InnerConnection::init, store, store_iter            *)
(***************************************************************************)
\* largest number of init calls against one store
MaxInits == 2

\* largest number of rows of the runs table
MaxRows == 2

SolverNames == {"s1", "s2"}

TestNames == {"ts"}

\* the solver descriptors a configuration may give a solver
SolverDescs == [exec : {"/bin/solver"}, params : {<<"-a">>, <<"-a", "-b">>}, ingest : {"raw"}]

\* the test set descriptors a configuration may give a test set
TestDescs == [timeout : {50, 100}, params : {<<"-q">>}]

\* the configurations init is called with: the descriptor of s1 and of the
\* test set vary from call to call, the descriptor of s2 does not
SolverConfigs ==
    {cfg \in [solvers : [SolverNames -> SolverDescs], tests : [TestNames -> TestDescs]] :
        cfg.solvers["s2"].params = <<"-a">>}

\* Itertools::join and [T]::join: the items with `sep` between them; a string
\* is the sequence of its parts
Join(items, sep) ==
    [i \in 1..(IF items = <<>> THEN 0 ELSE 2 * Len(items) - 1) |->
        IF i % 2 = 1 THEN items[(i + 1) \div 2] ELSE sep]

\* Solver::get_params and TestSet::get_params: self.params.iter().join(" ")
GetParams(desc) == Join(desc.params, " ")

\* an insert that joins the solver's parameters with another separator
InsertedSolverParamsComma(desc) == Join(desc.params, ",")

\* the params column of the row init inserts for a solver: solver.params.join(" ")
InsertedSolverParams(desc) == Join(desc.params, " ")

\* the greatest element of a non-empty set of numbers
Greatest(S) == CHOOSE x \in S : \A y \in S : y <= x

\* the least element of a non-empty set of numbers
Least(S) == CHOOSE x \in S : \A y \in S : x <= y

\* select .. from solvers where name = ?, then the first row whose exec, ingest
\* and params equal the descriptor's; 0 when there is none
FindSolver(rows, name, desc) ==
    LET hits == {i \in DOMAIN rows :
                    /\ rows[i].name = name
                    /\ rows[i].exec = desc.exec
                    /\ rows[i].ingest = desc.ingest
                    /\ rows[i].params = GetParams(desc)}
    IN IF hits = {} THEN 0 ELSE rows[Least(hits)].id

\* select .. from test_sets where name = ?, then the first row whose timeout and
\* params equal the descriptor's; 0 when there is none
FindTestSet(rows, name, desc) ==
    LET hits == {i \in DOMAIN rows :
                    /\ rows[i].name = name
                    /\ rows[i].timeout = desc.timeout
                    /\ rows[i].params = GetParams(desc)}
    IN IF hits = {} THEN 0 ELSE rows[Least(hits)].id

\* one turn of `for (name, solver) in config.solvers.iter()`: reuse the row
\* found, or insert one and take the id it returns (integer primary key: one
\* more than the largest id of the table)
RegisterSolver(rows, name, desc) ==
    IF FindSolver(rows, name, desc) # 0
    THEN [rows |-> rows, id |-> FindSolver(rows, name, desc)]
    ELSE [rows |-> Append(rows, [id |-> Len(rows) + 1, name |-> name, exec |-> desc.exec,
                                 params |-> InsertedSolverParams(desc),
                                 ingest |-> desc.ingest]),
          id |-> Len(rows) + 1]

\* one turn of `for (name, set) in config.tests.iter()`
RegisterTestSet(rows, name, desc) ==
    IF FindTestSet(rows, name, desc) # 0
    THEN [rows |-> rows, id |-> FindTestSet(rows, name, desc)]
    ELSE [rows |-> Append(rows, [id |-> Len(rows) + 1, name |-> name,
                                 timeout |-> desc.timeout, params |-> GetParams(desc)]),
          id |-> Len(rows) + 1]

\* the names of a BTreeMap in the order iter() visits them
NameOrder == <<"s1", "s2", "ts">>

\* the first `steps` turns of the two registration loops, from the tables and
\* id maps `st`
RECURSIVE Registered(_, _, _)
Registered(st, cfg, steps) ==
    IF steps = 0 THEN st
    ELSE LET prev == Registered(st, cfg, steps - 1)
             name == NameOrder[steps]
         IN IF name \in SolverNames
            THEN LET r == RegisterSolver(prev.solvers, name, cfg.solvers[name])
                 IN [prev EXCEPT !.solvers = r.rows,
                                 !.solverIds = [@ EXCEPT ![name] = r.id]]
            ELSE LET r == RegisterTestSet(prev.tests, name, cfg.tests[name])
                 IN [prev EXCEPT !.tests = r.rows,
                                 !.testIds = [@ EXCEPT ![name] = r.id]]

SInit0 ==
    /\ sDb = [solvers |-> <<>>, tests |-> <<>>, runs |-> <<>>]
    /\ sConn = [solverIds |-> [n \in SolverNames |-> 0],
                testIds |-> [n \in TestNames |-> 0], ready |-> FALSE]
    /\ sInits = <<>>

\* InnerConnection::init(config, benchmark, comment): the registration loops
\* over config.solvers and config.tests; a statement that fails ends init with
\* Err and keeps what the statements before it did
SInitCall ==
    /\ Len(sInits) < MaxInits
    /\ \E cfg \in SolverConfigs, steps \in 0..Len(NameOrder),
          completed \in BOOLEAN :
         LET start == [solvers |-> sDb.solvers, tests |-> sDb.tests,
                       solverIds |-> sConn.solverIds, testIds |-> sConn.testIds]
             end == Registered(start, cfg, steps)
             ok == completed /\ steps = Len(NameOrder)
         IN /\ (steps < Len(NameOrder)) => ~completed
            /\ sDb' = [sDb EXCEPT !.solvers = end.solvers, !.tests = end.tests]
            /\ sConn' = [solverIds |-> end.solverIds, testIds |-> end.testIds,
                         ready |-> sConn.ready \/ ok]
            /\ sInits' = Append(sInits,
                   [cfg |-> cfg, ok |-> ok,
                    solverIds |-> end.solverIds, testIds |-> end.testIds,
                    solversBefore |-> Len(sDb.solvers), solversAfter |-> Len(end.solvers),
                    testsBefore |-> Len(sDb.tests), testsAfter |-> Len(end.tests)])
    /\ UNCHANGED sRest

\* the runtimes a bundle may carry; 0 is the value of a failed run
Runtimes == {0, 7}

\* a column holding NULL
Null == [null |-> TRUE, value |-> 0]

\* a column holding the integer x
Value(x) == [null |-> FALSE, value |-> x]

\* the runtime parameter store binds: None when metrics.runtime == 0
StoreRuntime(runtime) == IF runtime = 0 THEN Null ELSE Value(runtime)

\* the runtime parameter store_iter binds: bundle.metrics.runtime
StoreIterRuntime(runtime) == Value(runtime)

\* the rows one store_iter call inserts for `bundles`
IterRows(bundles) ==
    [i \in DOMAIN bundles |->
        [runtime |-> StoreIterRuntime(bundles[i]), given |-> bundles[i], via |-> "store_iter"]]

\* InnerConnection::store: one insert into runs; an error leaves no row
SStore ==
    /\ sConn.ready
    /\ Len(sDb.runs) < MaxRows
    /\ \E runtime \in Runtimes, ok \in BOOLEAN :
         sDb' = [sDb EXCEPT !.runs =
                    IF ok THEN Append(@, [runtime |-> StoreRuntime(runtime),
                                          given |-> runtime, via |-> "store"])
                    ELSE @]
    /\ UNCHANGED <<sConn, sInits>>
    /\ UNCHANGED sRest

\* InnerConnection::store_iter: every bundle inserted in one transaction that
\* is committed at the end and rolled back on any error
SStoreIter ==
    /\ sConn.ready
    /\ \E n \in 1..(MaxRows - Len(sDb.runs)) :
         \E bundles \in [1..n -> Runtimes], ok \in BOOLEAN :
            sDb' = [sDb EXCEPT !.runs = IF ok THEN @ \o IterRows(bundles) ELSE @]
    /\ UNCHANGED <<sConn, sInits>>
    /\ UNCHANGED sRest

SNext ==
    \/ SInitCall
    \/ SStore
    \/ SStoreIter

(***************************************************************************)
(* The Delayed adapter: DelayedConnection::load, store, close              *)
(***************************************************************************)
\* largest number of store calls on one Delayed adapter
MaxDelayed == 3

\* the bundles store may be called with
DBundles == [runtime : Runtimes, solver : SolverNames]

\* DelayedConnection::load: an empty buffer over the inner adapter
DInit ==
    /\ dBuffer = <<>>
    /\ dInner = <<>>
    /\ dStored = <<>>
    /\ dState = "open"

\* a push that puts the bundle in front of the buffer
PushFront(buffer, bundle) == <<bundle>> \o buffer

\* Vec::push
Push(buffer, bundle) == Append(buffer, bundle)

\* DelayedConnection::store: push the bundle on the buffer, return Ok(i32::MIN)
DStore ==
    /\ dState = "open"
    /\ Len(dStored) < MaxDelayed
    /\ \E bundle \in DBundles :
         /\ dBuffer' = Push(dBuffer, bundle)
         /\ dStored' = Append(dStored, bundle)
    /\ UNCHANGED <<dInner, dState>>
    /\ UNCHANGED dRest

\* DelayedConnection::close: store_iter over the buffer unless it is empty,
\* `?` on its result, then the inner adapter's close
DClose ==
    /\ dState = "open"
    /\ \E iterOk, closeOk \in BOOLEAN :
         LET flush == [op |-> "store_iter", bundles |-> dBuffer, ok |-> iterOk]
             close == [op |-> "close", bundles |-> <<>>, ok |-> closeOk]
         IN /\ (dBuffer = <<>>) => iterOk
            /\ ~iterOk => closeOk
            /\ dInner' = dInner \o (IF dBuffer = <<>> THEN <<>> ELSE <<flush>>)
                                \o (IF iterOk THEN <<close>> ELSE <<>>)
            /\ dState' = IF iterOk /\ closeOk THEN "Ok" ELSE "Err"
    /\ dBuffer' = <<>>
    /\ UNCHANGED dStored
    /\ UNCHANGED dRest

DNext ==
    \/ DStore
    \/ DClose

(***************************************************************************)
(* Collector::join                                                         *)
(***************************************************************************)
\* largest number of children of a Grouped operand of join
MaxChildren == 2

\* Collector::Glob { paths }
Glob(paths) == [kind |-> "Glob", paths |-> paths, collectors |-> <<>>]

\* Collector::GDB { paths }
GDB(paths) == [kind |-> "GDB", paths |-> paths, collectors |-> <<>>]

\* Collector::Grouped { collectors }
Grouped(collectors) == [kind |-> "Grouped", paths |-> <<>>, collectors |-> collectors]

\* the collectors that are not Grouped
Leaves == {Glob(<<"f">>), GDB(<<"g">>)}

\* the operands of join: leaves, Grouped collectors of leaves, and Grouped
\* collectors that have a Grouped child
JCollectors ==
    Leaves
    \cup {Grouped(cs) : cs \in UNION {[1..n -> Leaves] : n \in 0..MaxChildren}}
    \cup {Grouped(<<Grouped(<<>>)>>), Grouped(<<GDB(<<>>), Grouped(<<Glob(<<"f">>)>>)>>)}

\* the inner match that always pushes `other` as one child
AbsorbNested(collectors, other) == Append(collectors, other)

\* the inner match of the Grouped arm: extend by the children of a Grouped
\* `other`, push any other `other`
Absorb(collectors, other) ==
    IF other.kind = "Grouped"
    THEN collectors \o other.collectors
    ELSE Append(collectors, other)

\* a join whose second arm returns the Grouped `other` as it is
joinKeepOther(self, other) ==
    IF self.kind = "Grouped" THEN Grouped(Absorb(self.collectors, other))
    ELSE IF other.kind = "Grouped" THEN other
    ELSE Grouped(<<self, other>>)

\* Collector::join(self, other)
join(self, other) ==
    IF self.kind = "Grouped" THEN Grouped(Absorb(self.collectors, other))
    ELSE IF other.kind = "Grouped" THEN Grouped(Append(other.collectors, self))
    ELSE Grouped(<<self, other>>)

JInit ==
    /\ jA \in JCollectors
    /\ jB \in JCollectors
    /\ jC \in JCollectors
    /\ jAB = Grouped(<<>>)
    /\ jBC = Grouped(<<>>)
    /\ jLeft = Grouped(<<>>)
    /\ jRight = Grouped(<<>>)
    /\ jPc = "start"

\* a.join(b) and b.join(c)
JInner ==
    /\ jPc = "start"
    /\ jAB' = join(jA, jB)
    /\ jBC' = join(jB, jC)
    /\ jPc' = "inner"
    /\ UNCHANGED <<jA, jB, jC, jLeft, jRight>>
    /\ UNCHANGED jRest

\* a.join(b).join(c) and a.join(b.join(c))
JOuter ==
    /\ jPc = "inner"
    /\ jLeft' = join(jAB, jC)
    /\ jRight' = join(jA, jBC)
    /\ jPc' = "done"
    /\ UNCHANGED <<jA, jB, jC, jAB, jBC>>
    /\ UNCHANGED jRest

JNext ==
    \/ JInner
    \/ JOuter

(***************************************************************************)
(* preflight_checks, SolverConfig::collectors, Collector::load and next    *)
(***************************************************************************)
\* largest number of entries of `paths` in a Glob configuration
MaxPaths == 1

Roots == {"d1", "d2"}

\* an entry of the file system: its path, its extension, directory or file
Entry(path, ext, dir) == [path |-> path, ext |-> ext, dir |-> dir]

\* WalkBuilder::new(root).build(): the root itself and everything below it
Walk(root) ==
    IF root = "d1"
    THEN <<Entry("d1", "", TRUE), Entry("d1/a.cnf", "cnf", FALSE), Entry("d1/b.txt", "txt", FALSE)>>
    ELSE <<Entry("d2", "", TRUE), Entry("d2/c.cnf", "cnf", FALSE)>>

\* the walk over several roots: one root after the other
RECURSIVE WalkAll(_)
WalkAll(roots) ==
    IF roots = <<>> THEN <<>> ELSE Walk(Head(roots)) \o WalkAll(Tail(roots))

\* GlobMatcher::is_match for the patterns *.cnf and *.txt
Matches(entry, glob) == ~entry.dir /\ entry.ext = glob

\* CollectorConfig::Glob { path, paths, glob }; "none" is a `path` not given
GlobConfigs ==
    [kind : {"Glob"}, path : {"none"} \cup Roots,
     paths : UNION {[1..n -> Roots] : n \in 0..MaxPaths},
     glob : {"cnf", "txt"}, collectors : {<<>>}]

\* CollectorConfig::Grouped { collectors }
GroupedConfig(names) ==
    [kind |-> "Grouped", path |-> "none", paths |-> <<>>, glob |-> "", collectors |-> names]

\* test set A is Grouped over B and C, which are Glob
CInit ==
    /\ cTests \in {t \in [{"A", "B", "C"} -> GlobConfigs \cup {GroupedConfig(<<"B", "C">>)}] :
                      /\ t["A"].kind = "Grouped"
                      /\ t["B"].kind = "Glob"
                      /\ t["C"].kind = "Glob" /\ t["C"].path = "none" /\ t["C"].glob = "cnf"}
    /\ cName \in {"A", "B", "C"}
    /\ cMap = [n \in {"A", "B", "C"} |-> Grouped(<<>>)]
    /\ cYield = <<>>
    /\ cPc = "config"

\* the Glob arm of preflight_checks: an error without `path` and `paths`;
\* `path` is pushed onto an empty `paths`
Preflight(config) ==
    IF config.kind = "Glob" /\ config.path # "none" /\ config.paths = <<>>
    THEN [config EXCEPT !.paths = <<config.path>>]
    ELSE config

PreflightError(config) ==
    config.kind = "Glob" /\ config.path = "none" /\ config.paths = <<>>

\* preflight_checks, and main's exit(1) when it reports an error
CPreflight ==
    /\ cPc = "config"
    /\ cTests' = [n \in DOMAIN cTests |-> Preflight(cTests[n])]
    /\ cPc' = IF \E n \in DOMAIN cTests : PreflightError(cTests[n]) THEN "rejected" ELSE "checked"
    /\ UNCHANGED <<cMap, cName, cYield>>
    /\ UNCHANGED cRest

\* Collector::load: Grouped is a stub without children; Glob walks `paths`
\* and then `path`, and keeps every entry of the walk
Load(config) ==
    IF config.kind = "Grouped" THEN Grouped(<<>>)
    ELSE Glob(WalkAll(config.paths \o (IF config.path = "none" THEN <<>> ELSE <<config.path>>)))

\* SolverConfig::collectors: Collector::load for every test set
CLoad ==
    /\ cPc = "checked"
    /\ cMap' = [n \in DOMAIN cTests |-> Load(cTests[n])]
    /\ cPc' = "loaded"
    /\ UNCHANGED <<cTests, cName, cYield>>
    /\ UNCHANGED cRest

\* Iterator::next: Glob and GDB pop the last path; Grouped returns the item
\* of the first child that has one
RECURSIVE NextItem(_)
NextItem(collector) ==
    IF collector.kind # "Grouped"
    THEN [some |-> collector.paths # <<>>,
          item |-> IF collector.paths = <<>> THEN <<>> ELSE <<Last(collector.paths)>>,
          rest |-> IF collector.paths = <<>> THEN collector
                   ELSE [collector EXCEPT !.paths = Front(collector.paths)]]
    ELSE LET results == [i \in DOMAIN collector.collectors |-> NextItem(collector.collectors[i])]
             hits == {i \in DOMAIN results : results[i].some}
         IN IF hits = {} THEN [some |-> FALSE, item |-> <<>>, rest |-> collector]
            ELSE [some |-> TRUE, item |-> results[Least(hits)].item,
                  rest |-> [collector EXCEPT !.collectors[Least(hits)] = results[Least(hits)].rest]]

\* what a collector yields when it is drained: its paths, last one first
RECURSIVE Drained(_)
Drained(collector) ==
    IF NextItem(collector).some
    THEN NextItem(collector).item \o Drained(NextItem(collector).rest)
    ELSE <<>>

\* one turn of `for file in collector`
CNextItem ==
    /\ cPc = "loaded"
    /\ NextItem(cMap[cName]).some
    /\ cYield' = cYield \o NextItem(cMap[cName]).item
    /\ cMap' = [cMap EXCEPT ![cName] = NextItem(cMap[cName]).rest]
    /\ UNCHANGED <<cTests, cName, cPc>>
    /\ UNCHANGED cRest

\* next returns None: the loop ends
CExhausted ==
    /\ cPc = "loaded"
    /\ ~NextItem(cMap[cName]).some
    /\ cPc' = "done"
    /\ UNCHANGED <<cTests, cMap, cName, cYield>>
    /\ UNCHANGED cRest

CNext ==
    \/ CPreflight
    \/ CLoad
    \/ CNextItem
    \/ CExhausted

(***************************************************************************)
(* Iterator for Collector: size_hint and next                              *)
(***************************************************************************)
\* largest number of calls of next that return None
MaxNones == 2

\* the sum of a sequence of numbers
RECURSIVE Sum(_)
Sum(numbers) == IF numbers = <<>> THEN 0 ELSE Head(numbers) + Sum(Tail(numbers))

\* a size hint that counts one more than the paths of a Glob or GDB collector
RECURSIVE size_hint_capacity(_)
size_hint_capacity(collector) ==
    IF collector.kind # "Grouped" THEN Len(collector.paths) + 1
    ELSE Sum([i \in DOMAIN collector.collectors |-> size_hint_capacity(collector.collectors[i])])

\* Collector::size_hint: paths.len() for Glob and GDB, the fold over the
\* children's size_hint().0 for Grouped; FS returns inner.size_hint()
RECURSIVE size_hint(_)
size_hint(collector) ==
    IF collector.kind # "Grouped" THEN Len(collector.paths)
    ELSE Sum([i \in DOMAIN collector.collectors |-> size_hint(collector.collectors[i])])

\* the collectors that are iterated: Glob and GDB collectors, Grouped
\* collectors of them, and a Grouped collector with a Grouped child
GLeaves == {Glob(<<"a", "b">>), Glob(<<"c">>), Glob(<<>>), GDB(<<>>)}

GCollectors ==
    GLeaves
    \cup {Grouped(cs) : cs \in UNION {[1..n -> GLeaves] : n \in 0..MaxChildren}}
    \cup {Grouped(<<Grouped(<<Glob(<<"a", "b">>), Glob(<<>>)>>), Glob(<<"c">>)>>)}

GInit ==
    /\ gFs \in BOOLEAN
    /\ gCol \in GCollectors
    /\ gFirst = gCol
    /\ gYield = <<>>
    /\ gCalls = <<>>

\* the collector after `count` calls of next
RECURSIVE Skipped(_, _)
Skipped(collector, count) ==
    IF count = 0 THEN collector ELSE Skipped(NextItem(collector).rest, count - 1)

\* next of Glob, GDB and Grouped returning Some
GNextSome ==
    /\ ~gFs
    /\ NextItem(gCol).some
    /\ gYield' = gYield \o NextItem(gCol).item
    /\ gCol' = NextItem(gCol).rest
    /\ gCalls' = Append(gCalls, [hint |-> size_hint(gCol), some |-> TRUE])
    /\ UNCHANGED <<gFs, gFirst>>
    /\ UNCHANGED gRest

\* next of FS returning Some: `while let Some(path) = inner.next()` passes
\* over the paths that do not exist, carry the done prefix or fail to be
\* renamed, and returns the first one it renames
GNextClaimed ==
    /\ gFs
    /\ \E passed \in 0..(Len(Drained(gCol)) - 1) :
         /\ gYield' = gYield \o NextItem(Skipped(gCol, passed)).item
         /\ gCol' = NextItem(Skipped(gCol, passed)).rest
    /\ gCalls' = Append(gCalls, [hint |-> size_hint(gCol), some |-> TRUE])
    /\ UNCHANGED <<gFs, gFirst>>
    /\ UNCHANGED gRest

\* next returning None: nothing left, or FS passed over everything left
GNextNone ==
    /\ Cardinality({i \in DOMAIN gCalls : ~gCalls[i].some}) < MaxNones
    /\ gFs \/ ~NextItem(gCol).some
    /\ gCol' = Skipped(gCol, Len(Drained(gCol)))
    /\ gCalls' = Append(gCalls, [hint |-> size_hint(gCol), some |-> FALSE])
    /\ UNCHANGED <<gFs, gFirst, gYield>>
    /\ UNCHANGED gRest

GNext ==
    \/ GNextSome
    \/ GNextClaimed
    \/ GNextNone

(***************************************************************************)
(* SolverConfig::preflight_checks                                          *)
(***************************************************************************)
\* what a path of the configuration is on disk
FileKinds == {"absent", "directory", "plain", "executable"}

\* check_executable: TRUE when the path is no file or has no execute bit
check_executable(file) == file \in {"absent", "directory", "plain"}

\* the configurations preflight_checks is called with: at most one solver,
\* one ingestor "raw", one test set "ts"
PConfigs ==
    [solvers : {0, 1},
     exec : {"absent", "plain", "executable"},
     ingest : {"raw", "undefined"},
     ingestor : {"plain", "executable"},
     collector : {c \in GlobConfigs : c.glob = "cnf" /\ c.path = "none"}
                   \cup {GroupedConfig(<<"ts">>), GroupedConfig(<<"undefined">>)},
     timeout : {0, 50},
     connection : {"SQLite", "ClickHouse"},
     path : {"absent", "directory"},
     user : BOOLEAN,
     password : BOOLEAN]

PInit ==
    /\ pCfg \in PConfigs
    /\ pFlag = FALSE
    /\ pPc = "config"

\* the rules of preflight_checks that set contains_error, in the order of
\* the code; the ClickHouse arm logs its error and sets nothing
ContainsError(cfg) ==
    \/ cfg.solvers = 0
    \/ check_executable(cfg.ingestor)
    \/ cfg.solvers > 0 /\ cfg.ingest # "raw"
    \/ cfg.solvers > 0 /\ cfg.exec \notin {"plain", "executable"}
    \/ cfg.solvers > 0 /\ cfg.exec \in {"plain", "executable"} /\ check_executable(cfg.exec)
    \/ cfg.collector.kind = "Grouped" /\ \E i \in DOMAIN cfg.collector.collectors :
                                              cfg.collector.collectors[i] # "ts"
    \/ PreflightError(cfg.collector)
    \/ cfg.timeout = 0
    \/ cfg.connection = "SQLite" /\ cfg.path = "directory"

\* preflight_checks(&mut self) -> bool
PCheck ==
    /\ pPc = "config"
    /\ pFlag' = ContainsError(pCfg)
    /\ pCfg' = [pCfg EXCEPT !.collector = Preflight(@)]
    /\ pPc' = "done"
    /\ UNCHANGED pRest

PNext ==
    \/ PCheck

(***************************************************************************)
(* Commands::Execute: the filter on config.solvers and config.tests        *)
(***************************************************************************)
\* the names a configuration defines, and one more that can be asked for
ConfigNames == {"n1", "n2"}

ArgNames == ConfigNames \cup {"other"}

\* Option<Vec<String>>: not given, or the names that were given
NameOptions == [given : BOOLEAN, names : SUBSET ArgNames] \ [given : {FALSE}, names : (SUBSET ArgNames) \ {{}}]

AInit ==
    /\ aSolvers \in SUBSET ConfigNames
    /\ aTests \in SUBSET ConfigNames
    /\ aArgs \in [solvers : NameOptions, tests : NameOptions]
    /\ aKept = [solvers |-> aSolvers, tests |-> aTests]
    /\ aPc = "loaded"

\* .iter().filter(|(key, _)| !names.contains(&key.to_string())).fold(..):
\* the entries whose key is not among the names
FilterMap(keys, option) ==
    IF option.given THEN {key \in keys : key \notin option.names} ELSE keys

\* `if let Some(solvers) = sub_args.solvers` and `if let Some(test_set) = sub_args.tests`
AFilter ==
    /\ aPc = "loaded"
    /\ aKept' = [solvers |-> FilterMap(aSolvers, aArgs.solvers),
                 tests |-> FilterMap(aTests, aArgs.tests)]
    /\ aPc' = "filtered"
    /\ UNCHANGED <<aSolvers, aTests, aArgs>>
    /\ UNCHANGED aRest

ANext ==
    \/ AFilter

(***************************************************************************)
(* Commands::Clean                                                         *)
(***************************************************************************)
\* number of files in the directory clean walks
MaxCleaned == 2

CleanBases == {BaseNames[i] : i \in 1..MaxCleaned}

\* the names claims and releases leave a file with: its own, one prefix, or
\* the prefixes of a file that was claimed again while it was being processed
LeftNames(base) ==
    {<<base>>, <<PROCESSING_PREFIX, base>>, <<DONE_PREFIX, base>>,
     <<PROCESSING_PREFIX, PROCESSING_PREFIX, base>>, <<DONE_PREFIX, PROCESSING_PREFIX, base>>}

\* config.collectors(): the walk is taken once, before the first rename
KInit ==
    /\ kStart \in {d \in SUBSET (UNION {LeftNames(b) : b \in CleanBases}) :
                      \A b \in CleanBases : Cardinality(d \cap LeftNames(b)) = 1}
    /\ kDisk = kStart
    /\ kList \in Perms(kStart)
    /\ kPc = "walk"

\* the test clean makes on a file name: longer than the prefix and starting with it
CarriesPrefix(name, prefix) == Len(name) > 1 /\ name[1] = prefix

\* a strip_prefix that slices from the last byte of the prefix
strip_prefix_inclusive(source, prefix, base) ==
    base \o SubSeq(source, Len(prefix), Len(source))

\* strip_prefix(source, prefix, base): base ++ source[prefix.len()..]
strip_prefix(source, prefix, base) ==
    base \o SubSeq(source, Len(prefix) + 1, Len(source))

\* one turn of `for file in collector`: a file name with one of the prefixes
\* is renamed to strip_prefix of it, and a failed rename panics (unwrap_or_log)
KFile ==
    /\ kPc = "walk"
    /\ kList # <<>>
    /\ kList' = Front(kList)
    /\ LET file == Last(kList)
       IN IF CarriesPrefix(file, DONE_PREFIX) \/ CarriesPrefix(file, PROCESSING_PREFIX)
          THEN \E how \in RenameReads :
                  LET res == RawRename(kDisk, file, strip_prefix(file, <<file[1]>>, <<>>), how)
                  IN /\ kDisk' = res.disk
                     /\ kPc' = IF res.ok THEN "walk" ELSE "panicked"
          ELSE UNCHANGED <<kDisk, kPc>>
    /\ UNCHANGED kStart
    /\ UNCHANGED kRest

\* the collector is exhausted: clean returns Ok(())
KDone ==
    /\ kPc = "walk"
    /\ kList = <<>>
    /\ kPc' = "done"
    /\ UNCHANGED <<kStart, kDisk, kList>>
    /\ UNCHANGED kRest

KNext ==
    \/ KFile
    \/ KDone

(***************************************************************************)
(* strip_prefix and reprefix                                               *)
(***************************************************************************)
\* largest number of bytes of a file name
MaxName == 3

\* the bytes file names are made of
NameBytes == {"a", "[", "_"}

\* DONE_PREFIX and PROCESSING_PREFIX byte by byte
PrefixBytes(prefix) ==
    IF prefix = "done" THEN <<"[", "d", "o", "n", "e", "]", "_">>
    ELSE <<"[", "p", "r", "o", "c", "e", "s", "s", "i", "n", "g", "]", "_">>

OtherPrefix(prefix) == IF prefix = "done" THEN "processing" ELSE "done"

\* reprefix(source, old_prefix, new_prefix): new_prefix ++ source[old_prefix.len()..]
reprefix(source, old_prefix, new_prefix) ==
    new_prefix \o SubSeq(source, Len(old_prefix) + 1, Len(source))

TInit ==
    /\ tName \in UNION {[1..n -> NameBytes] : n \in 0..MaxName}
    /\ tPrefix \in {"done", "processing"}
    /\ tStripped = <<>>
    /\ tReprefixed = <<>>
    /\ tPc = "start"

\* joined = p ++ n; strip_prefix(joined, p, OsString::new()) and
\* reprefix(&joined, &p, q) as in the tests of util_test.rs
TApply ==
    /\ tPc = "start"
    /\ tStripped' = strip_prefix(PrefixBytes(tPrefix) \o tName, PrefixBytes(tPrefix), <<>>)
    /\ tReprefixed' = reprefix(PrefixBytes(tPrefix) \o tName, PrefixBytes(tPrefix),
                               PrefixBytes(OtherPrefix(tPrefix)))
    /\ tPc' = "done"
    /\ UNCHANGED <<tName, tPrefix>>
    /\ UNCHANGED tRest

TNext ==
    \/ TApply

(***************************************************************************)
(* Worker pinning of the local executor (executors/local.rs)               *)
(*                                                                         *)
(* With executor.parameter.threads = "pinned" the pool has one worker per  *)
(* logical CPU.  Every worker runs the start handler once, in any order:   *)
(* one atomic fetch_sub on a shared counter, then set_thread_affinity.     *)
(***************************************************************************)
MaxThreads == 4

\* usize arithmetic wraps; the model's counter wraps at a power of two far
\* above every core count it uses
UsizeWrap == 65536

PoolThreads == 1..MaxThreads

fetch_sub_load(counter, val) == [prev |-> counter, next |-> counter]

\* AtomicUsize::fetch_sub: returns the previous value, stores the wrapped
\* difference, as one indivisible step (SeqCst)
fetch_sub(counter, val) ==
    [prev |-> counter, next |-> (counter - val + UsizeWrap) % UsizeWrap]

\* get_core_num() = lThreads; free_cores = AtomicUsize::new(core_num - 1)
LInit ==
    /\ lThreads \in PoolThreads
    /\ lFree = lThreads - 1
    /\ lSelected = [th \in PoolThreads |-> Null]
    /\ lPinned = [th \in PoolThreads |-> Null]
    /\ lPc = [th \in PoolThreads |-> "spawned"]

\* let selected_core = free_cores.fetch_sub(1, ATOMIC_ORDERING)
LSelect(th) ==
    /\ th <= lThreads
    /\ lPc[th] = "spawned"
    /\ LET r == fetch_sub(lFree, 1) IN
         /\ lSelected' = [lSelected EXCEPT ![th] = r.prev]
         /\ lFree' = r.next
    /\ lPc' = [lPc EXCEPT ![th] = "selected"]
    /\ UNCHANGED <<lThreads, lPinned>>
    /\ UNCHANGED lRest

\* set_thread_affinity([selected_core]).expect(..): a CPU index the machine
\* does not have is an error, and the expect panics
LPin(th) ==
    /\ lPc[th] = "selected"
    /\ IF lSelected[th] \in 0..(lThreads - 1)
         THEN /\ lPinned' = [lPinned EXCEPT ![th] = lSelected[th]]
              /\ lPc' = [lPc EXCEPT ![th] = "running"]
         ELSE /\ lPc' = [lPc EXCEPT ![th] = "panicked"]
              /\ UNCHANGED lPinned
    /\ UNCHANGED <<lThreads, lFree, lSelected>>
    /\ UNCHANGED lRest

LNext == \E th \in PoolThreads : LSelect(th) \/ LPin(th)

(***************************************************************************)
(* close of the direct adapters (database/sqlite.rs, database/duckdb.rs)   *)
(*                                                                         *)
(* Both adapters run the same loop around the driver's close, which on     *)
(* failure hands the connection back together with the error.  One step of *)
(* the model is one call of the driver's close.                            *)
(***************************************************************************)
MaxAttempts == 5

Adapters == {"SQLite", "DuckDB"}

\* errors the driver's close can report
CloseErrors == {"busy", "locked", "ioerr", "misuse"}

\* ConnectionError::SQLite(error) | ConnectionError::DuckDB(DuckDBError::DuckDB(error))
ConnectionError(adapter, error) ==
    [tag |-> "err", adapter |-> adapter, error |-> error]

\* Ok(()), and the result of a call that has not returned
OkResult == [tag |-> "ok", adapter |-> "none", error |-> "none"]

NoResult == [tag |-> "none", adapter |-> "none", error |-> "none"]

GiveUpLate(counter) == counter = 4

\* if counter == 3
GiveUp(counter) == counter = 3

OInit ==
    /\ oAdapter \in Adapters
    /\ oCounter = 0
    /\ oAttempts = 0
    /\ oLog = <<>>
    /\ oResult = NoResult
    /\ oPc = "closing"

\* self.connection.close() returns Ok: the loop ends, close returns Ok(())
OCloseOk ==
    /\ oPc = "closing"
    /\ oAttempts < MaxAttempts
    /\ oAttempts' = oAttempts + 1
    /\ oResult' = OkResult
    /\ oPc' = "returned"
    /\ UNCHANGED <<oAdapter, oCounter, oLog>>
    /\ UNCHANGED oRest

\* self.connection.close() returns Err((connection, error)): count, take the
\* connection back, log, and return the error once the counter says so
OCloseErr(error) ==
    /\ oPc = "closing"
    /\ oAttempts < MaxAttempts
    /\ oAttempts' = oAttempts + 1
    /\ oCounter' = oCounter + 1
    /\ oLog' = Append(oLog, error)
    /\ IF GiveUp(oCounter')
         THEN /\ oResult' = ConnectionError(oAdapter, error)
              /\ oPc' = "returned"
         ELSE UNCHANGED <<oResult, oPc>>
    /\ UNCHANGED oAdapter
    /\ UNCHANGED oRest

ONext == OCloseOk \/ \E error \in CloseErrors : OCloseErr(error)

(***************************************************************************)
(* SharedConnection: a direct adapter behind its fair mutex                *)
(* (database/sqlite.rs, database/duckdb.rs)                                *)
(*                                                                         *)
(* store and store_iter are `self.lock().store(..)`: the guard returned by *)
(* lock_arc lives to the end of the statement, the call on the inner       *)
(* connection runs under it.                                               *)
(***************************************************************************)
MaxSharedCalls == 4

\* the threads that share the adapter
SharedWorkers == {"w1", "w2", "w3"}

SharedOps == {"store", "store_iter"}

\* a lock that is handed out whoever holds it
FreeAlways(lock) == TRUE

\* lock_arc returns when no other guard of the mutex is alive
Free(lock) == lock = "none"

UInit ==
    /\ uLock = "none"
    /\ uPc = [w \in SharedWorkers |-> "idle"]
    /\ uOp = [w \in SharedWorkers |-> "none"]
    /\ uInside = {}
    /\ uDone = 0
    /\ uCalls = 0

\* a worker calls store or store_iter on the SharedConnection
UCall(w) ==
    /\ uPc[w] = "idle"
    /\ uCalls < MaxSharedCalls
    /\ uCalls' = uCalls + 1
    /\ \E op \in SharedOps : uOp' = [uOp EXCEPT ![w] = op]
    /\ uPc' = [uPc EXCEPT ![w] = "lock"]
    /\ UNCHANGED <<uLock, uInside, uDone>>
    /\ UNCHANGED uRest

\* self.lock(): self.0.lock_arc(); the call on the InnerConnection begins
ULock(w) ==
    /\ uPc[w] = "lock"
    /\ Free(uLock)
    /\ uLock' = w
    /\ uInside' = uInside \cup {w}
    /\ uPc' = [uPc EXCEPT ![w] = "inside"]
    /\ UNCHANGED <<uOp, uDone, uCalls>>
    /\ UNCHANGED uRest

\* the call on the InnerConnection returns Ok or Err, the guard is dropped at
\* the end of the statement and the result is returned
UReturn(w) ==
    /\ uPc[w] = "inside"
    /\ uInside' = uInside \ {w}
    /\ uLock' = IF uLock = w THEN "none" ELSE uLock
    /\ uDone' = uDone + 1
    /\ uOp' = [uOp EXCEPT ![w] = "none"]
    /\ uPc' = [uPc EXCEPT ![w] = "idle"]
    /\ UNCHANGED uCalls
    /\ UNCHANGED uRest

UNext == \E w \in SharedWorkers : UCall(w) \/ ULock(w) \/ UReturn(w)

\* the mutex is a parking_lot FairMutex: a thread that keeps waiting for it
\* gets it; a call on the connection runs to its end
SharedFairness ==
    \A w \in SharedWorkers : SF_vars(ULock(w)) /\ WF_vars(UReturn(w))

(***************************************************************************)
(* From the command line to the id lookups of a run (main.rs, config.rs,   *)
(* database/sqlite.rs, ingest.rs)                                          *)
(*                                                                         *)
(* execute filters the configuration by --solver and --test, runs the      *)
(* preflight checks, initialises the adapter, which registers the solvers  *)
(* and test sets of the configuration in its id maps, and hands the        *)
(* configuration to the executor, whose tasks look both names up.          *)
(***************************************************************************)
MaxLookups == 2

RunSolvers == {"s1", "s2"}

RunTests == {"ta", "tb"}

\* --solver and --test: not given, or given with names of the configuration
RunOptions == {[given |-> FALSE, names |-> {}]} \cup [given : {TRUE}, names : SUBSET RunSolvers]

\* a configuration: its solvers, its test sets, and the solvers each test set
\* selects (none selected for a test set it does not have)
RunConfigs ==
    {cfg \in [solvers : SUBSET RunSolvers, tests : SUBSET RunTests,
              selected : [RunTests -> SUBSET RunSolvers]] :
        \A test \in RunTests \ cfg.tests : cfg.selected[test] = {}}

\* a reference check that finds nothing
NoUndefinedSolver(cfg) == FALSE

\* `if !self.solvers.contains_key(solver)`, over the test sets that select
\* solvers
UndefinedSolver(cfg) ==
    \E test \in cfg.tests :
        cfg.selected[test] # {} /\ ~(cfg.selected[test] \subseteq cfg.solvers)

\* `if value.solvers.is_empty() { value.solvers = self.solvers.keys().. }`
FallBack(cfg) ==
    [cfg EXCEPT !.selected =
        [test \in RunTests |->
            IF test \in cfg.tests /\ cfg.selected[test] = {}
            THEN cfg.solvers ELSE cfg.selected[test]]]

RInit ==
    /\ rCfg \in RunConfigs
    /\ rArgs \in [solvers : RunOptions,
                  tests : {[given |-> FALSE, names |-> {}]}
                          \cup [given : {TRUE}, names : SUBSET RunTests]]
    /\ rIds = [solvers |-> {}, tests |-> {}]
    /\ rLooked = {}
    /\ rCalls = 0
    /\ rPc = "loaded"

\* the two pre filters of Commands::Execute
RFilter ==
    /\ rPc = "loaded"
    /\ rCfg' = [rCfg EXCEPT !.solvers = FilterMap(@, rArgs.solvers),
                            !.tests = FilterMap(@, rArgs.tests),
                            !.selected = [test \in RunTests |->
                                IF test \in FilterMap(rCfg.tests, rArgs.tests)
                                THEN @[test] ELSE {}]]
    /\ rPc' = "filtered"
    /\ UNCHANGED <<rArgs, rIds, rLooked, rCalls>>
    /\ UNCHANGED rRest

\* config.preflight_checks(): true (and exit(1)) when no solver is defined,
\* when a test set selects a solver that is not defined, or when another
\* rule is violated
RPreflight ==
    /\ rPc = "filtered"
    /\ \E other \in BOOLEAN :
         rPc' = IF rCfg.solvers = {} \/ UndefinedSolver(rCfg) \/ other
                THEN "exit1" ELSE "checked"
    /\ rCfg' = FallBack(rCfg)
    /\ UNCHANGED <<rArgs, rIds, rLooked, rCalls>>
    /\ UNCHANGED rRest

\* connection.init(&config, ..): every solver and test set of the
\* configuration gets its id in the adapter's maps; an error exits with 1
RInitAdapter ==
    /\ rPc = "checked"
    /\ \E ok \in BOOLEAN :
         IF ok
         THEN /\ rIds' = [solvers |-> rCfg.solvers, tests |-> rCfg.tests]
              /\ rPc' = "running"
         ELSE /\ rPc' = "exit1"
              /\ UNCHANGED rIds
    /\ UNCHANGED <<rCfg, rArgs, rLooked, rCalls>>
    /\ UNCHANGED rRest

\* a task of the product (test set, solver of the set, path) looks its names
\* up: solvers.get(..).unwrap() and test_sets.get(..).unwrap()
RLookup ==
    /\ rPc = "running"
    /\ rCalls < MaxLookups
    /\ rCalls' = rCalls + 1
    /\ \E test \in rCfg.tests : \E solver \in rCfg.selected[test] :
         IF solver \in rIds.solvers /\ test \in rIds.tests
         THEN /\ rLooked' = rLooked \cup {<<solver, test>>}
              /\ UNCHANGED rPc
         ELSE /\ rPc' = "panicked"
              /\ UNCHANGED rLooked
    /\ UNCHANGED <<rCfg, rArgs, rIds>>
    /\ UNCHANGED rRest

RNext == RFilter \/ RPreflight \/ RInitAdapter \/ RLookup

(***************************************************************************)
(* Two test sets over the same files in FileSystem mode (main.rs,          *)
(* collector.rs)                                                           *)
(*                                                                         *)
(* config.collectors() builds one collector per test set, each with its    *)
(* own walk of the set's paths, and main wraps every one in Collector::fs  *)
(* before the executor starts.                                             *)
(***************************************************************************)
MaxSetFiles == 2

\* the input files both test sets enumerate
SetFiles == {<<BaseNames[i]>> : i \in 1..MaxSetFiles}

TestSets == {"A", "B"}

VInit ==
    /\ vDisk = SetFiles
    /\ vPaths = [set \in TestSets |-> <<>>]
    /\ vYield = [set \in TestSets |-> {}]
    /\ vReceipts = [set \in TestSets |-> {}]
    /\ vPc = "load"

\* config.collectors() and the Collector::fs wrapping: every walk is taken
\* here, in the directory's order
VLoad ==
    /\ vPc = "load"
    /\ vPaths' \in [TestSets -> Perms(vDisk)]
    /\ vPc' = "run"
    /\ UNCHANGED <<vDisk, vYield, vReceipts>>
    /\ UNCHANGED vRest

\* Collector::next (FS) of one test set's collector, one turn of its loop:
\* pop the path, test it, rename it, yield it when the rename returned 0
VNextItem(set) ==
    /\ vPc = "run"
    /\ vPaths[set] # <<>>
    /\ vPaths' = [vPaths EXCEPT ![set] = Front(@)]
    /\ LET path == Last(vPaths[set]) IN
         IF Claimable(vDisk, path)
         THEN \E how \in RenameReads :
                LET res == RawRename(vDisk, path, ProcessingName(path), how)
                IN /\ vDisk' = res.disk
                   /\ vYield' = [vYield EXCEPT ![set] =
                                    @ \cup ClaimYields(res.ok, ProcessingName(path))]
                   /\ vReceipts' = [vReceipts EXCEPT ![set] =
                                    @ \cup ClaimYields(res.ok, ProcessingName(path))]
         ELSE UNCHANGED <<vDisk, vYield, vReceipts>>
    /\ UNCHANGED vPc
    /\ UNCHANGED vRest

\* WrappedPath::drop when the tasks of a yielded path are over
VRelease(set) ==
    /\ \E path \in vReceipts[set], how \in RenameReads :
         /\ vDisk' = RawRename(vDisk, path, DoneName(path), how).disk
         /\ vReceipts' = [vReceipts EXCEPT ![set] = @ \ {path}]
    /\ UNCHANGED <<vPaths, vYield, vPc>>
    /\ UNCHANGED vRest

VNext == VLoad \/ \E set \in TestSets : VNextItem(set) \/ VRelease(set)

(***************************************************************************)
(* One run of a solver whose stdout and stderr are pipes (local.rs)        *)
(*                                                                         *)
(* The executor spawns the child with both streams piped, waits for its    *)
(* exit with wait_timeout, and reads the pipes only after the exit.  A     *)
(* pipe holds PipeCapacity units; a write to a full pipe blocks the child  *)
(* until somebody reads.                                                   *)
(***************************************************************************)
MaxOutput == 3

\* what a pipe holds before a write blocks
PipeCapacity == 2

\* a solver: fits says it finishes within the test set's timeout when its
\* output is drained; out and err are what it writes to stdout and stderr
Solvers == [fits : BOOLEAN, out : 0..MaxOutput, err : 0..MaxOutput]

\* the child has output left that no pipe takes
Blocked ==
    \/ wOutLeft > 0 /\ wOutPipe = PipeCapacity
    \/ wErrLeft > 0 /\ wErrPipe = PipeCapacity

WInit ==
    /\ wChild = [fits |-> FALSE, out |-> 0, err |-> 0]
    /\ wOutLeft = 0
    /\ wErrLeft = 0
    /\ wOutPipe = 0
    /\ wErrPipe = 0
    /\ wRead = <<0, 0>>
    /\ wRecorded = "none"
    /\ wPc = "spawn"

\* Command::new(..).stdout(Stdio::piped()).stderr(Stdio::piped()).spawn()
WSpawn ==
    /\ wPc = "spawn"
    /\ wChild' \in Solvers
    /\ wOutLeft' = wChild'.out
    /\ wErrLeft' = wChild'.err
    /\ wPc' = "wait"
    /\ UNCHANGED <<wOutPipe, wErrPipe, wRead, wRecorded>>
    /\ UNCHANGED wRest

\* the child writes one unit to stdout; nobody reads while the executor waits
WWriteOut ==
    /\ wPc = "wait"
    /\ wOutLeft > 0
    /\ wOutPipe < PipeCapacity
    /\ wOutLeft' = wOutLeft - 1
    /\ wOutPipe' = wOutPipe + 1
    /\ UNCHANGED <<wChild, wErrLeft, wErrPipe, wRead, wRecorded, wPc>>
    /\ UNCHANGED wRest

\* the child writes one unit to stderr
WWriteErr ==
    /\ wPc = "wait"
    /\ wErrLeft > 0
    /\ wErrPipe < PipeCapacity
    /\ wErrLeft' = wErrLeft - 1
    /\ wErrPipe' = wErrPipe + 1
    /\ UNCHANGED <<wChild, wOutLeft, wOutPipe, wRead, wRecorded, wPc>>
    /\ UNCHANGED wRest

\* wait_timeout returns Some(status): the child wrote everything and exited
\* within the timeout
WExit ==
    /\ wPc = "wait"
    /\ wChild.fits
    /\ wOutLeft = 0
    /\ wErrLeft = 0
    /\ wPc' = "read"
    /\ UNCHANGED <<wChild, wOutLeft, wErrLeft, wOutPipe, wErrPipe, wRead, wRecorded>>
    /\ UNCHANGED wRest

\* the Some(status) arm: read_to_string of stdout, then of stderr, then the
\* ingestor and the store
WRead ==
    /\ wPc = "read"
    /\ wRead' = <<wOutPipe, wErrPipe>>
    /\ wOutPipe' = 0
    /\ wErrPipe' = 0
    /\ wRecorded' = "exit"
    /\ wPc' = "done"
    /\ UNCHANGED <<wChild, wOutLeft, wErrLeft>>
    /\ UNCHANGED wRest

\* wait_timeout returns None: the timeout passed with the child alive, which
\* is a child too slow for it or one blocked on a full pipe; the None arm
\* kills it and stores the failure bundle
WTimeout ==
    /\ wPc = "wait"
    /\ ~wChild.fits \/ Blocked
    /\ wRecorded' = "timeout"
    /\ wPc' = "done"
    /\ UNCHANGED <<wChild, wOutLeft, wErrLeft, wOutPipe, wErrPipe, wRead>>
    /\ UNCHANGED wRest

WNext == WSpawn \/ WWriteOut \/ WWriteErr \/ WExit \/ WRead \/ WTimeout

(***************************************************************************)
(* Specifications                                                          *)
(***************************************************************************)
FSIdle ==
    /\ disk = {}
    /\ colPaths = [h \in Hosts |-> <<>>]
    /\ fsPc = [h \in Hosts |-> "none"]
    /\ fsCur = [h \in Hosts |-> <<>>]
    /\ receipts = [h \in Hosts |-> {}]
    /\ yielded = [h \in Hosts |-> {}]
    /\ attempted = [h \in Hosts |-> {}]
    /\ released = [h \in Hosts |-> {}]

XIdle ==
    /\ xCfg = [iterations |-> 0, tasks |-> {}]
    /\ xPc = [w \in Workers |-> "idle"]
    /\ xTask = [w \in Workers |-> "none"]
    /\ xIter = [w \in Workers |-> 0]
    /\ xQueue = {}
    /\ xRows = EmptyBag
    /\ xTotal = 0
    /\ xProcessed = 0
    /\ xIterations = 0
    /\ xErrors = 0
    /\ xState = "returned"
    /\ xLog = {}
    /\ xChildren = {}
    /\ xHeld = [path \in Paths |-> 0]
    /\ xReleased = {}

BIdle ==
    /\ bSize = 0
    /\ bBuffer = <<>>
    /\ bBufLock = "none"
    /\ bConnLock = "none"
    /\ bPc = [w \in Workers |-> "idle"]
    /\ bArg = [w \in Workers |-> 0]
    /\ bInner = <<>>
    /\ bFlushes = <<>>
    /\ bCalls = 0
    /\ bErrs = 0
    /\ bState = "closed_ok"

IIdle ==
    /\ iPc = "idle"
    /\ iProcs = <<>>
    /\ iStatus = FALSE
    /\ iResults = <<>>
    /\ iCall = NoCall

SIdle ==
    /\ sDb = [solvers |-> <<>>, tests |-> <<>>, runs |-> <<>>]
    /\ sConn = [solverIds |-> [n \in SolverNames |-> 0],
                testIds |-> [n \in TestNames |-> 0], ready |-> FALSE]
    /\ sInits = <<>>

DIdle ==
    /\ dBuffer = <<>>
    /\ dInner = <<>>
    /\ dStored = <<>>
    /\ dState = "open"

JIdle ==
    /\ jA = Grouped(<<>>)
    /\ jB = Grouped(<<>>)
    /\ jC = Grouped(<<>>)
    /\ jAB = Grouped(<<>>)
    /\ jBC = Grouped(<<>>)
    /\ jLeft = Grouped(<<>>)
    /\ jRight = Grouped(<<>>)
    /\ jPc = "idle"

CIdle ==
    /\ cTests = [n \in {"A", "B", "C"} |-> GroupedConfig(<<>>)]
    /\ cMap = [n \in {"A", "B", "C"} |-> Grouped(<<>>)]
    /\ cName = "A"
    /\ cYield = <<>>
    /\ cPc = "idle"

GIdle ==
    /\ gFs = FALSE
    /\ gCol = Grouped(<<>>)
    /\ gFirst = Grouped(<<>>)
    /\ gYield = <<>>
    /\ gCalls = <<>>

PIdle ==
    /\ pCfg = [solvers |-> 0]
    /\ pFlag = FALSE
    /\ pPc = "idle"

AIdle ==
    /\ aSolvers = {}
    /\ aTests = {}
    /\ aArgs = [solvers |-> [given |-> FALSE, names |-> {}], tests |-> [given |-> FALSE, names |-> {}]]
    /\ aKept = [solvers |-> {}, tests |-> {}]
    /\ aPc = "idle"

KIdle ==
    /\ kStart = {}
    /\ kDisk = {}
    /\ kList = <<>>
    /\ kPc = "idle"

TIdle ==
    /\ tName = <<>>
    /\ tPrefix = "done"
    /\ tStripped = <<>>
    /\ tReprefixed = <<>>
    /\ tPc = "idle"

LIdle ==
    /\ lThreads = 0
    /\ lFree = 0
    /\ lSelected = <<>>
    /\ lPinned = <<>>
    /\ lPc = <<>>

OIdle ==
    /\ oAdapter = "none"
    /\ oCounter = 0
    /\ oAttempts = 0
    /\ oLog = <<>>
    /\ oResult = NoResult
    /\ oPc = "idle"

UIdle ==
    /\ uLock = "none"
    /\ uPc = <<>>
    /\ uOp = <<>>
    /\ uInside = {}
    /\ uDone = 0
    /\ uCalls = 0

RIdle ==
    /\ rCfg = [solvers |-> {}, tests |-> {}, selected |-> <<>>]
    /\ rArgs = [solvers |-> [given |-> FALSE, names |-> {}],
                tests |-> [given |-> FALSE, names |-> {}]]
    /\ rIds = [solvers |-> {}, tests |-> {}]
    /\ rLooked = {}
    /\ rCalls = 0
    /\ rPc = "idle"

VIdle ==
    /\ vDisk = {}
    /\ vPaths = <<>>
    /\ vYield = <<>>
    /\ vReceipts = <<>>
    /\ vPc = "idle"

WIdle ==
    /\ wChild = [fits |-> FALSE, out |-> 0, err |-> 0]
    /\ wOutLeft = 0
    /\ wErrLeft = 0
    /\ wOutPipe = 0
    /\ wErrPipe = 0
    /\ wRead = <<0, 0>>
    /\ wRecorded = "none"
    /\ wPc = "idle"

MIdle ==
    /\ mPc = "exited"
    /\ mAdapter = [kind |-> "none", size |-> -1, state |-> "unloaded"]
    /\ mBuffer = <<>>
    /\ mRows = <<>>
    /\ mAccepted = {}
    /\ mErrors = 0
    /\ mFail = "none"
    /\ mExit = 0

InitFS == FSInit /\ XIdle /\ BIdle /\ MIdle /\ IIdle /\ SIdle /\ DIdle /\ JIdle /\ CIdle /\ GIdle /\ PIdle /\ AIdle /\ KIdle /\ TIdle /\ LIdle /\ OIdle /\ UIdle /\ RIdle /\ VIdle /\ WIdle

SpecFS == InitFS /\ [][FSNext]_vars

InitExec == XInit /\ FSIdle /\ BIdle /\ MIdle /\ IIdle /\ SIdle /\ DIdle /\ JIdle /\ CIdle /\ GIdle /\ PIdle /\ AIdle /\ KIdle /\ TIdle /\ LIdle /\ OIdle /\ UIdle /\ RIdle /\ VIdle /\ WIdle

SpecExec == InitExec /\ [][XNext]_vars

InitBatched == BInit /\ FSIdle /\ XIdle /\ MIdle /\ IIdle /\ SIdle /\ DIdle /\ JIdle /\ CIdle /\ GIdle /\ PIdle /\ AIdle /\ KIdle /\ TIdle /\ LIdle /\ OIdle /\ UIdle /\ RIdle /\ VIdle /\ WIdle

SpecBatched == InitBatched /\ [][BNext]_vars

\* FairMutex hands its lock to every thread that keeps waiting for it, and a
\* thread that is not waiting for a lock goes on running
BatchedFairness ==
    \A w \in Workers :
        /\ WF_vars(BPush(w) \/ BFull(w) \/ BFlush(w))
        /\ SF_vars(BLockBuffer(w))
        /\ SF_vars(BLockConnection(w))

\* largest number of store calls of an execution under the fair scheduler
MaxFairStores == 6

\* a worker enters store while fewer than MaxFairStores calls were made
BStoreCallFair(w) == BStoreCall(w) /\ bCalls < MaxFairStores

BNextFair ==
    \/ \E w \in Workers :
         \/ BStoreCallFair(w) \/ BLockBuffer(w) \/ BPush(w) \/ BFull(w)
         \/ BLockConnection(w) \/ BFlush(w)
    \/ BClose

SpecBatchedFair == InitBatched /\ [][BNextFair]_vars /\ BatchedFairness

InitMain == MInit /\ FSIdle /\ XIdle /\ BIdle /\ IIdle /\ SIdle /\ DIdle /\ JIdle /\ CIdle /\ GIdle /\ PIdle /\ AIdle /\ KIdle /\ TIdle /\ LIdle /\ OIdle /\ UIdle /\ RIdle /\ VIdle /\ WIdle

SpecMain == InitMain /\ [][MNext]_vars

InitIngest == IInit /\ FSIdle /\ XIdle /\ BIdle /\ MIdle /\ SIdle /\ DIdle /\ JIdle /\ CIdle /\ GIdle /\ PIdle /\ AIdle /\ KIdle /\ TIdle /\ LIdle /\ OIdle /\ UIdle /\ RIdle /\ VIdle /\ WIdle

SpecIngest == InitIngest /\ [][INext]_vars

\* ingest runs on the calling thread, which keeps running, and the wait ends
\* with the child's exit or with the timeout; nothing makes an ingestor exit
IngestFairness ==
    /\ WF_vars(IWriteStdin)
    /\ WF_vars(IWaitSome \/ IWaitNone)
    /\ WF_vars(IRead)

SpecIngestFair == InitIngest /\ [][INext]_vars /\ IngestFairness

InitSQL == SInit0 /\ FSIdle /\ XIdle /\ BIdle /\ MIdle /\ IIdle /\ DIdle /\ JIdle /\ CIdle /\ GIdle /\ PIdle /\ AIdle /\ KIdle /\ TIdle /\ LIdle /\ OIdle /\ UIdle /\ RIdle /\ VIdle /\ WIdle

SpecSQL == InitSQL /\ [][SNext]_vars

InitDelayed == DInit /\ FSIdle /\ XIdle /\ BIdle /\ MIdle /\ IIdle /\ SIdle /\ JIdle /\ CIdle /\ GIdle /\ PIdle /\ AIdle /\ KIdle /\ TIdle /\ LIdle /\ OIdle /\ UIdle /\ RIdle /\ VIdle /\ WIdle

SpecDelayed == InitDelayed /\ [][DNext]_vars

InitJoin == JInit /\ FSIdle /\ XIdle /\ BIdle /\ MIdle /\ IIdle /\ SIdle /\ DIdle /\ CIdle /\ GIdle /\ PIdle /\ AIdle /\ KIdle /\ TIdle /\ LIdle /\ OIdle /\ UIdle /\ RIdle /\ VIdle /\ WIdle

SpecJoin == InitJoin /\ [][JNext]_vars

InitCollect == CInit /\ FSIdle /\ XIdle /\ BIdle /\ MIdle /\ IIdle /\ SIdle /\ DIdle /\ JIdle /\ GIdle /\ PIdle /\ AIdle /\ KIdle /\ TIdle /\ LIdle /\ OIdle /\ UIdle /\ RIdle /\ VIdle /\ WIdle

SpecCollect == InitCollect /\ [][CNext]_vars

InitIter == GInit /\ FSIdle /\ XIdle /\ BIdle /\ IIdle /\ SIdle /\ DIdle /\ JIdle /\ CIdle /\ MIdle /\ PIdle /\ AIdle /\ KIdle /\ TIdle /\ LIdle /\ OIdle /\ UIdle /\ RIdle /\ VIdle /\ WIdle

SpecIter == InitIter /\ [][GNext]_vars

InitPreflight == PInit /\ FSIdle /\ XIdle /\ BIdle /\ IIdle /\ SIdle /\ DIdle /\ JIdle /\ CIdle /\ GIdle /\ MIdle /\ AIdle /\ KIdle /\ TIdle /\ LIdle /\ OIdle /\ UIdle /\ RIdle /\ VIdle /\ WIdle

SpecPreflight == InitPreflight /\ [][PNext]_vars

InitArgs == AInit /\ FSIdle /\ XIdle /\ BIdle /\ IIdle /\ SIdle /\ DIdle /\ JIdle /\ CIdle /\ GIdle /\ PIdle /\ MIdle /\ KIdle /\ TIdle /\ LIdle /\ OIdle /\ UIdle /\ RIdle /\ VIdle /\ WIdle

SpecArgs == InitArgs /\ [][ANext]_vars

InitClean == KInit /\ FSIdle /\ XIdle /\ BIdle /\ IIdle /\ SIdle /\ DIdle /\ JIdle /\ CIdle /\ GIdle /\ PIdle /\ AIdle /\ MIdle /\ TIdle /\ LIdle /\ OIdle /\ UIdle /\ RIdle /\ VIdle /\ WIdle

SpecClean == InitClean /\ [][KNext]_vars

InitStrip == TInit /\ FSIdle /\ XIdle /\ BIdle /\ IIdle /\ SIdle /\ DIdle /\ JIdle /\ CIdle /\ GIdle /\ PIdle /\ AIdle /\ KIdle /\ MIdle /\ LIdle /\ OIdle /\ UIdle /\ RIdle /\ VIdle /\ WIdle

SpecStrip == InitStrip /\ [][TNext]_vars

InitPin == LInit /\ FSIdle /\ XIdle /\ BIdle /\ IIdle /\ SIdle /\ DIdle /\ JIdle /\ CIdle /\ GIdle /\ PIdle /\ AIdle /\ KIdle /\ TIdle /\ MIdle /\ OIdle /\ UIdle /\ RIdle /\ VIdle /\ WIdle

SpecPin == InitPin /\ [][LNext]_vars

InitClose == OInit /\ FSIdle /\ XIdle /\ BIdle /\ IIdle /\ SIdle /\ DIdle /\ JIdle /\ CIdle /\ GIdle /\ PIdle /\ AIdle /\ KIdle /\ TIdle /\ LIdle /\ MIdle /\ UIdle /\ RIdle /\ VIdle /\ WIdle

\* close runs its loop on the calling thread, which keeps running
SpecClose == InitClose /\ [][ONext]_vars /\ WF_vars(ONext)

InitShared == UInit /\ FSIdle /\ XIdle /\ BIdle /\ IIdle /\ SIdle /\ DIdle /\ JIdle /\ CIdle /\ GIdle /\ PIdle /\ AIdle /\ KIdle /\ TIdle /\ LIdle /\ OIdle /\ MIdle /\ RIdle /\ VIdle /\ WIdle

SpecShared == InitShared /\ [][UNext]_vars /\ SharedFairness

InitLookup == RInit /\ FSIdle /\ XIdle /\ BIdle /\ IIdle /\ SIdle /\ DIdle /\ JIdle /\ CIdle /\ GIdle /\ PIdle /\ AIdle /\ KIdle /\ TIdle /\ LIdle /\ OIdle /\ UIdle /\ MIdle /\ VIdle /\ WIdle

SpecLookup == InitLookup /\ [][RNext]_vars

InitSets == VInit /\ FSIdle /\ XIdle /\ BIdle /\ IIdle /\ SIdle /\ DIdle /\ JIdle /\ CIdle /\ GIdle /\ PIdle /\ AIdle /\ KIdle /\ TIdle /\ LIdle /\ OIdle /\ UIdle /\ RIdle /\ MIdle /\ WIdle

SpecSets == InitSets /\ [][VNext]_vars

InitPipes == WInit /\ FSIdle /\ XIdle /\ BIdle /\ IIdle /\ SIdle /\ DIdle /\ JIdle /\ CIdle /\ GIdle /\ PIdle /\ AIdle /\ KIdle /\ TIdle /\ LIdle /\ OIdle /\ UIdle /\ RIdle /\ VIdle /\ MIdle

SpecPipes == InitPipes /\ [][WNext]_vars

(***************************************************************************)
(* Claims about the filesystem claim protocol (SpecFS)                     *)
(***************************************************************************)
\* the input files a host has been handed for processing
ProcessedBy(h) == {BaseOf(path) : path \in yielded[h]}

\* both collectors have returned None and every receipt has been dropped
FSQuiet == \A h \in Hosts : fsPc[h] = "none" /\ receipts[h] = {}

\* C1: when both hosts have called the claiming rename on the same file name,
\* exactly one of them has yielded a receipt for that file.
C1_ExactlyOneYield ==
    \A name \in attempted["h1"] \cap attempted["h2"] :
        Cardinality({h \in Hosts : ProcessingName(name) \in yielded[h]}) = 1

\* C2: once both processes are through, every input file has been processed by
\* exactly one of them: the union is the whole directory, the intersection empty.
C2_AtMostOnceClaim ==
    FSQuiet =>
        /\ ProcessedBy("h1") \cup ProcessedBy("h2") = Bases
        /\ ProcessedBy("h1") \cap ProcessedBy("h2") = {}

\* C3: a file whose receipt is alive is on disk under [processing]_<original>, a
\* file whose receipt was released is on disk under [done]_<original>.
C3_PrefixTracksReceipt ==
    \A h \in Hosts :
        /\ \A path \in receipts[h] : <<PROCESSING_PREFIX, BaseOf(path)>> \in disk
        /\ \A path \in released[h] : <<DONE_PREFIX, BaseOf(path)>> \in disk

(***************************************************************************)
(* Claims about the run loop (SpecExec)                                    *)
(***************************************************************************)
\* the rows a run has committed on the branch `branch`, as a bag
RowsOfRun(task, iter, branch) ==
    [r \in {q \in BagToSet(xRows) :
               q.task = task /\ q.iter = iter /\ q.branch = branch} |-> xRows[r]]

\* how many rows that is
RowCount(task, iter, branch) == BagCardinality(RowsOfRun(task, iter, branch))

\* runtime 0, satisfiability Unknown, every other metric 0
IsFailureBundle(m) ==
    /\ m.runtime = 0 /\ m.satisfiable = Unknown /\ m.parse_time = 0
    /\ m.memory_usage = 0 /\ m.restarts = 0 /\ m.conflicts = 0
    /\ m.propagations = 0 /\ m.conflict_literals = 0
    /\ m.number_of_variables = 0 /\ m.number_of_clauses = 0

\* C4: for every executed run exactly one of these happened: its ingested
\* metrics were stored, a failure bundle was stored, the error counter went up.
C4_ExactlyOneOutcome ==
    \A l \in xLog :
        RowCount(l.task, l.iter, "exit") + RowCount(l.task, l.iter, "timeout") + l.errs = 1

\* C8 as stated: every run that timed out has its child killed, the ingestor
\* not called, and exactly one failure bundle stored.
C8_TimeoutStoresOneFailureBundle ==
    \A l \in xLog :
        l.branch = "timeout" =>
            /\ l.killed /\ ~l.ingested
            /\ RowCount(l.task, l.iter, "exit") = 0
            /\ RowCount(l.task, l.iter, "timeout") = 1
            /\ \A r \in BagToSet(RowsOfRun(l.task, l.iter, "timeout")) :
                   IsFailureBundle(r.metrics)

\* C8, amended: every run that timed out has its child killed and the ingestor
\* not called; either exactly one failure bundle (all zero, Unknown) is stored
\* for it and no error is counted, or its storage step failed, and then no row
\* is stored for it and the error counter went up by one.
C8_TimeoutStoresFailureOrCountsError ==
    \A l \in xLog :
        l.branch = "timeout" =>
            /\ l.killed /\ ~l.ingested
            /\ RowCount(l.task, l.iter, "exit") = 0
            /\ \/ /\ l.what = "stored" /\ l.errs = 0
                  /\ RowCount(l.task, l.iter, "timeout") = 1
                  /\ \A r \in BagToSet(RowsOfRun(l.task, l.iter, "timeout")) :
                         IsFailureBundle(r.metrics)
               \/ /\ l.what = "store_err" /\ l.errs = 1
                  /\ RowCount(l.task, l.iter, "timeout") = 0

\* a run timed out and its failure bundle was committed
C8_Witness ==
    \E l \in xLog :
        /\ l.branch = "timeout" /\ l.what = "stored"
        /\ RowCount(l.task, l.iter, "timeout") = 1

\* execute has returned and the ingestor failed on every run, of which there
\* was at least one
AllRunsIngestErr ==
    /\ xState = "returned"
    /\ xLog # {}
    /\ \A l \in xLog : l.what = "ingest_err"

\* an ingestor error counts one error for its run and stores no row for it
IngestErrPerRun ==
    \A l \in xLog :
        l.what = "ingest_err" =>
            /\ l.errs = 1
            /\ RowCount(l.task, l.iter, "exit") = 0
            /\ RowCount(l.task, l.iter, "timeout") = 0

\* C9 as stated: an ingestor error counts once and stores nothing for its run;
\* when the ingestor fails on every run, execute returns with no row stored
\* and the error counter equal to the total number of tasks.
C9_ErrorsEqualTasks ==
    /\ IngestErrPerRun
    /\ AllRunsIngestErr => xRows = EmptyBag /\ xErrors = xTotal

\* C9, amended: an ingestor error counts once and stores nothing for its run and
\* cancels no other run; when the ingestor fails on every run, execute returns
\* with every run executed, no row stored and the error counter equal to the
\* number of runs, that is tasks times iterations.
C9_ErrorsEqualRuns ==
    /\ IngestErrPerRun
    /\ AllRunsIngestErr =>
           /\ xRows = EmptyBag
           /\ Cardinality(xLog) = Cardinality(xCfg.tasks) * xCfg.iterations
           /\ xErrors = Cardinality(xCfg.tasks) * xCfg.iterations
           /\ xProcessed = xTotal

\* execute returned after the ingestor failed on each of several runs per task
C9_Witness == AllRunsIngestErr /\ xCfg.iterations > 1 /\ xCfg.tasks = Tasks

(***************************************************************************)
(* Claims about the Batched adapter (SpecBatched)                          *)
(***************************************************************************)
\* close returned Ok after store calls that all returned Ok
ClosedClean == bState = "closed_ok" /\ bErrs = 0

\* the successful store_iter calls issued by `by` ("store" or "close")
FlushesBy(by) == {i \in DOMAIN bFlushes : bFlushes[i].by = by}

\* C5: after store calls followed by a close that returns ok, the inner adapter
\* holds as many rows as store calls were received, each bundle exactly once.
C5_RowsEqualStoreCalls ==
    ClosedClean =>
        /\ Len(bInner) = bCalls
        /\ \A b \in 1..bCalls : Cardinality({i \in DOMAIN bInner : bInner[i] = b}) = 1

\* C6: with batch size s and n store calls, the run issues n div s flushes of
\* exactly s bundles each, close flushes the residual n mod s bundles, and the
\* inner adapter ends with n rows.
C6_FlushSchedule ==
    ClosedClean =>
        /\ Cardinality(FlushesBy("store")) = bCalls \div bSize
        /\ \A i \in FlushesBy("store") : bFlushes[i].n = bSize
        /\ IF bCalls % bSize = 0
           THEN FlushesBy("close") = {}
           ELSE /\ Cardinality(FlushesBy("close")) = 1
                /\ \A i \in FlushesBy("close") : bFlushes[i].n = bCalls % bSize
        /\ Len(bInner) = bCalls

(***************************************************************************)
(* Claims about the execute command (SpecMain)                             *)
(***************************************************************************)
\* C7: when the command ends after the execution, close has been invoked on
\* the adapter and every bundle that store accepted is persisted.
C7_CloseAfterDrain ==
    (mPc = "exited" /\ mFail = "none") =>
        /\ mAdapter.state = "closed"
        /\ \A b \in mAccepted : \E i \in DOMAIN mRows : mRows[i] = b

C11_TimedOutIngestorAborted ==
    \A c \in DOMAIN iResults :
        iResults[c].result = "ChildTimeout" => iProcs[iResults[c].proc] # "running"

(***************************************************************************)
(* Claims about the order of runs and releases (SpecExec)                  *)
(***************************************************************************)
\* the runs of `task` that are over
FinishedRuns(task) == {l \in xLog : l.task = task}

\* the tasks that are not over: waiting in the iterator or held by a worker
OpenTasks == xQueue \cup {xTask[w] : w \in {v \in Workers : xTask[v] # "none"}}

RepeatedInits ==
    {p \in (DOMAIN sInits) \X (DOMAIN sInits) :
        /\ p[1] < p[2]
        /\ sInits[p[1]].ok /\ sInits[p[2]].ok
        /\ sInits[p[1]].cfg = sInits[p[2]].cfg}

\* C13: an init that is run again against the same store with the same solver
\* and test set descriptors inserts no solver row and no test set row, and
\* gives every solver and every test set the id the earlier init gave it.
C13_InitIdempotent ==
    \A p \in RepeatedInits :
        /\ sInits[p[2]].solversAfter = sInits[p[2]].solversBefore
        /\ sInits[p[2]].testsAfter = sInits[p[2]].testsBefore
        /\ sInits[p[2]].solverIds = sInits[p[1]].solverIds
        /\ sInits[p[2]].testIds = sInits[p[1]].testIds

C13_Witness ==
    \E p \in RepeatedInits :
        /\ sInits[p[1]].solversAfter > sInits[p[1]].solversBefore
        /\ \E n \in SolverNames : Len(sInits[p[1]].cfg.solvers[n].params) > 1

\* C14: on every write path, store and store_iter alike, a bundle with runtime
\* 0 is persisted with a NULL runtime and a bundle with another runtime is
\* persisted with that runtime.
C14_ZeroRuntimeIsNull ==
    \A i \in DOMAIN sDb.runs :
        sDb.runs[i].runtime = (IF sDb.runs[i].given = 0 THEN Null ELSE Value(sDb.runs[i].given))
(***************************************************************************)
(* Claims about the Delayed adapter (SpecDelayed)                          *)
(***************************************************************************)
\* the positions of the store_iter calls among the inner adapter's calls
FlushCalls == {i \in DOMAIN dInner : dInner[i].op = "store_iter"}

\* C15: the inner adapter of a Delayed adapter receives nothing before close;
\* close hands the stored bundles, each once and in the order of the store
\* calls, to one store_iter call, and closes the inner adapter only after it.
C15_NothingBeforeCloseThenOneFlush ==
    /\ dState = "open" => dInner = <<>>
    /\ dState # "open" =>
          /\ dStored = <<>> => FlushCalls = {}
          /\ dStored # <<>> => FlushCalls = {1} /\ dInner[1].bundles = dStored
          /\ \A i \in DOMAIN dInner :
                dInner[i].op = "close" => i = Len(dInner) /\ \A f \in FlushCalls : f < i

C15_Witness ==
    /\ dState = "Ok"
    /\ Len(dStored) = MaxDelayed
    /\ dStored[1] # dStored[2]
    /\ Len(dInner) = 2
(***************************************************************************)
(* Claims about Collector::join (SpecJoin)                                 *)
(***************************************************************************)
\* no direct child of the collector is Grouped
NoGroupedChild(collector) ==
    \A i \in DOMAIN collector.collectors : collector.collectors[i].kind # "Grouped"

\* C17: join(a, b) is a Grouped collector with no Grouped direct child,
\* whenever a Grouped a and a Grouped b have no Grouped child themselves.
C17_JoinIsFlat ==
    (jPc # "start" /\ NoGroupedChild(jA) /\ NoGroupedChild(jB)) =>
        (jAB.kind = "Grouped" /\ NoGroupedChild(jAB))

C17_Witness ==
    /\ jPc = "inner"
    /\ jA.kind = "Grouped" /\ jB.kind = "Grouped"
    /\ Len(jA.collectors) = 2 /\ Len(jB.collectors) = 1
    /\ NoGroupedChild(jA) /\ NoGroupedChild(jB)
    /\ Len(jAB.collectors) = 3

\* C18: join(join(a, b), c) and join(a, join(b, c)) are Grouped collectors
\* with the same number of direct children.
C18_JoinCountAssociative ==
    jPc = "done" =>
        /\ jLeft.kind = "Grouped"
        /\ jRight.kind = "Grouped"
        /\ Len(jLeft.collectors) = Len(jRight.collectors)

C18_Witness ==
    /\ jPc = "done"
    /\ jA.kind # "Grouped" /\ jB.kind = "Grouped" /\ jC.kind # "Grouped"
    /\ Len(jB.collectors) = 2
    /\ Len(jLeft.collectors) = 4
    /\ jLeft # jRight
(***************************************************************************)
(* Claims about building and draining collectors (SpecCollect)             *)
(***************************************************************************)
\* C16: when test set A is Grouped over B and C, the collector built for A
\* yields exactly the items of B's collector followed by the items of C's.
C16_GroupedYieldsChildren ==
    (cPc = "done" /\ cName = "A") =>
        cYield = Drained(Load(cTests["B"])) \o Drained(Load(cTests["C"]))

\* C19: a Glob collector of a configuration that passed preflight yields no
\* path twice.
C19_GlobYieldsOnce ==
    (cPc \in {"loaded", "done"} /\ cTests[cName].kind = "Glob") =>
        \A i, k \in DOMAIN cYield : cYield[i] = cYield[k] => i = k

\* C20: every path a Glob collector yields matches the configured glob; no
\* directory and no file that does not match is yielded.
C20_GlobYieldsMatches ==
    (cPc \in {"loaded", "done"} /\ cTests[cName].kind = "Glob") =>
        \A i \in DOMAIN cYield : Matches(cYield[i], cTests[cName].glob)

(***************************************************************************)
(* Claims about size_hint and next (SpecIter)                              *)
(***************************************************************************)
\* the number of calls of next from call `from` on that returned Some
YieldedFrom(from) == Cardinality({i \in from..Len(gCalls) : gCalls[i].some})

\* C21: size_hint of a Glob or GDB collector is the exact number of items it
\* still yields, size_hint of a Grouped collector is the sum of its children's
\* size_hints, and size_hint of an FS collector, which is its inner
\* collector's, is at least the number of items it still yields.
C21_SizeHint ==
    /\ (~gFs /\ gCol.kind # "Grouped") => size_hint(gCol) = Len(Drained(gCol))
    /\ gCol.kind = "Grouped" =>
          size_hint(gCol) = Sum([i \in DOMAIN gCol.collectors |-> size_hint(gCol.collectors[i])])
    /\ \A p \in DOMAIN gCalls : YieldedFrom(p) <= gCalls[p].hint
    /\ (~gFs /\ \E i \in DOMAIN gCalls : ~gCalls[i].some) =>
          \A p \in DOMAIN gCalls : YieldedFrom(p) = gCalls[p].hint

C21_Witness ==
    /\ gFs
    /\ gFirst.kind = "Grouped"
    /\ Len(gFirst.collectors) = 2
    /\ \E p \in DOMAIN gCalls : gCalls[p].hint = 3 /\ YieldedFrom(p) = 1
    /\ \E i \in DOMAIN gCalls : ~gCalls[i].some

\* the items of the children of the first collector, child after child
RECURSIVE ChildAfterChild(_)
ChildAfterChild(children) ==
    IF children = <<>> THEN <<>>
    ELSE Drained(Head(children)) \o ChildAfterChild(Tail(children))

\* C30: a Grouped collector yields the remaining items of its first child
\* before any item of its second child, and so on; it returns None only when
\* every child is exhausted, and after a None every later call returns None.
C30_GroupedOrder ==
    (~gFs /\ gFirst.kind = "Grouped") =>
        /\ gYield = SubSeq(ChildAfterChild(gFirst.collectors), 1, Len(gYield))
        /\ \A i \in DOMAIN gCalls :
              ~gCalls[i].some =>
                 /\ YieldedFrom(1) = Len(ChildAfterChild(gFirst.collectors))
                 /\ \A k \in i..Len(gCalls) : ~gCalls[k].some

C30_Witness ==
    /\ ~gFs
    /\ gFirst.kind = "Grouped"
    /\ Len(gFirst.collectors) = 2
    /\ gYield = <<"b", "a", "c">>
    /\ Cardinality({i \in DOMAIN gCalls : ~gCalls[i].some}) = MaxNones

(***************************************************************************)
(* Claims about preflight_checks (SpecPreflight)                           *)
(***************************************************************************)
\* one of the rules the claim lists is violated
ListedRuleViolated ==
    \/ pCfg.solvers = 0
    \/ pCfg.ingestor # "executable"
    \/ pCfg.solvers > 0 /\ pCfg.exec # "executable"
    \/ pCfg.solvers > 0 /\ pCfg.ingest = "undefined"
    \/ pCfg.collector.kind = "Grouped" /\ \E i \in DOMAIN pCfg.collector.collectors :
                                               pCfg.collector.collectors[i] = "undefined"
    \/ pCfg.timeout = 0
    \/ pCfg.connection = "ClickHouse" /\ pCfg.user # pCfg.password

\* C22: preflight_checks returns the failure flag exactly when one of the
\* listed rules is violated: no solver, an ingestor or solver executable that
\* is missing or not executable, a solver with an undefined ingestor, a
\* Grouped collector naming an undefined test set, a timeout of 0, or a
\* ClickHouse user without password or password without user.
C22_FlagIffRuleViolated ==
    pPc = "done" => (pFlag <=> ListedRuleViolated)

(***************************************************************************)
(* Claims about the execute options (SpecArgs)                             *)
(***************************************************************************)
\* C23: with --solver the benchmark uses the named solvers, and only them,
\* among the configured ones, and all of them without the option; the same
\* for --test and the test sets.
C23_FilterKeepsNamed ==
    aPc = "filtered" =>
        /\ aKept.solvers = (IF aArgs.solvers.given THEN aSolvers \cap aArgs.solvers.names
                            ELSE aSolvers)
        /\ aKept.tests = (IF aArgs.tests.given THEN aTests \cap aArgs.tests.names ELSE aTests)

(***************************************************************************)
(* Claims about clean (SpecClean)                                          *)
(***************************************************************************)
\* C24: when clean has walked the collectors, every file that carried a
\* [processing]_ or [done]_ prefix has its original name again, and the files
\* without a prefix are untouched.
C24_CleanRestoresNames ==
    kPc = "done" => kDisk = {<<Last(name)>> : name \in kStart}

(***************************************************************************)
(* Claims about strip_prefix and reprefix (SpecStrip)                      *)
(***************************************************************************)
\* C25: for every file name n and prefix p of the two, strip_prefix of p ++ n
\* by p onto the empty name is n, and reprefix of p ++ n from p to the other
\* prefix q is q ++ n.
C25_StripUndoesPrefix ==
    tPc = "done" =>
        /\ tStripped = tName
        /\ tReprefixed = PrefixBytes(OtherPrefix(tPrefix)) \o tName

C25_Witness ==
    /\ tPc = "done"
    /\ tPrefix = "processing"
    /\ Len(tName) = MaxName
    /\ tName[1] = "["
    /\ Len(tReprefixed) = Len(tName) + 7

(***************************************************************************)
(* Claims about files in the done state (SpecFS)                           *)
(***************************************************************************)
\* the files a step renames away: the names that leave the directory
RenamedAway == disk \ disk'

\* a step of a claim: the host was at its rename
ClaimStep == \E h \in Hosts : fsPc[h] = "rename" /\ fsPc'[h] = "next"

\* C26: the FS collector never renames and never yields a file whose name
\* begins with [done]_, and a file that is in the done state is not claimed
\* again by any later scan of any host.
C26_DoneIsNeverClaimed ==
    /\ [](\A h \in Hosts :
            /\ \A path \in attempted[h] : ~HasDonePrefix(path)
            /\ \A path \in yielded[h] : ~HasDonePrefix(path) /\ ~HasDonePrefix(Tail(path))
            /\ fsPc[h] = "rename" => ~HasDonePrefix(fsCur[h]))
    /\ [][ClaimStep => \A name \in RenamedAway : ~HasDonePrefix(name)]_vars

C26_Witness ==
    \E h \in Hosts :
        /\ fsPc[h] = "none"
        /\ attempted[h] = {}
        /\ disk # {}
        /\ \A name \in disk : HasDonePrefix(name)

(***************************************************************************)
(* Claims about the locks of the Batched adapter (SpecBatchedFair)         *)
(***************************************************************************)
\* a worker inside store can take a step
SomeStoreStep ==
    \E w \in Workers :
        ENABLED (BLockBuffer(w) \/ BPush(w) \/ BFull(w) \/ BLockConnection(w) \/ BFlush(w))

\* C27: with workers calling store concurrently, the inner connection's lock
\* is only taken by the holder of the buffer's lock, no worker holds the inner
\* lock while it waits for the buffer's, some worker inside store can always
\* go on, and every store call returns.
C27_StoreNeverDeadlocks ==
    /\ [](\A w \in Workers :
            /\ bConnLock = w => bBufLock = w
            /\ bPc[w] = "lock_connection" => bBufLock = w
            /\ bPc[w] = "lock_buffer" => (bConnLock # w /\ bBufLock # w))
    /\ []((\E w \in Workers : bPc[w] # "idle") => SomeStoreStep)
    /\ \A w \in Workers : (bPc[w] # "idle") ~> (bPc[w] = "idle")

C27_Witness ==
    /\ bPc["w1"] = "flush"
    /\ bPc["w2"] = "lock_buffer"
    /\ bConnLock = "w1"
    /\ bBufLock = "w1"

Started == {th \in 1..lThreads : lPc[th] # "spawned"}

\* C28: with pinning enabled, the start handlers of the pool's workers, in
\* any interleaving, select pairwise distinct logical CPUs, every selected
\* index lies in 0..threads-1, the selections count down from threads-1, no
\* handler panics, and every worker that finished its handler is pinned to
\* the CPU it selected.
C28_PinnedDistinctInRange ==
    lThreads > 0 =>
        /\ \A th \in Started : lSelected[th] \in 0..(lThreads - 1)
        /\ \A t1, t2 \in Started : t1 # t2 => lSelected[t1] # lSelected[t2]
        /\ {lSelected[th] : th \in Started}
             = (lThreads - Cardinality(Started))..(lThreads - 1)
        /\ \A th \in 1..lThreads :
             /\ lPc[th] # "panicked"
             /\ lPc[th] = "running" => lPinned[th] = lSelected[th]

C28_Witness ==
    /\ lThreads = MaxThreads
    /\ \A th \in 1..lThreads : lPc[th] = "running"
    /\ lPinned[1] = 0
    /\ {lPinned[th] : th \in 1..lThreads} = 0..(lThreads - 1)

\* C29: close on a direct adapter always terminates: the driver's close is
\* called at most three times; when a call succeeds close returns ok at once,
\* every earlier call having failed; when three calls in a row fail close
\* returns the third error, wrapped for its adapter, and calls no more.
C29_CloseTerminates ==
    /\ [](oPc # "idle" =>
            /\ oAttempts <= 3
            /\ oCounter = Len(oLog)
            /\ oPc = "closing" => (oAttempts = oCounter /\ oCounter < 3)
            /\ (oPc = "returned" /\ oResult = OkResult) =>
                   (oAttempts = oCounter + 1 /\ oCounter < 3)
            /\ (oPc = "returned" /\ oResult # OkResult) =>
                   /\ oAttempts = 3
                   /\ oCounter = 3
                   /\ oResult = ConnectionError(oAdapter, oLog[3]))
    /\ (oPc = "closing") ~> (oPc = "returned")

C29_Witness ==
    /\ oPc = "returned"
    /\ oAttempts = 3
    /\ oResult = ConnectionError("DuckDB", "busy")
    /\ oLog = <<"locked", "ioerr", "busy">>

(***************************************************************************)
(* Claims about the executor's counters (SpecExec)                         *)
(***************************************************************************)
\* C35: processed never exceeds total; when execute returns processed equals
\* total and the iteration counter equals the number of runs attempted, that
\* is the number of tasks times the iteration count of the set.
C35_CountersAgree ==
    /\ xProcessed <= xTotal
    /\ xState = "returned" =>
           /\ xProcessed = xTotal
           /\ xIterations = Cardinality(xCfg.tasks) * xCfg.iterations

(***************************************************************************)
(* Claims about a failed flush of the Batched adapter (SpecBatched)        *)
(***************************************************************************)
\* a store call of worker w ends in this step with the error of its flush
FlushFails(w) == bPc[w] = "flush" /\ bPc'[w] = "idle" /\ bErrs' = bErrs + 1

\* C39: a store call whose flush fails returns the error and leaves buffer and
\* inner adapter as they were; the buffer never holds more than `size`
\* bundles; and a full buffer changes only by a flush that hands exactly its
\* bundles to the inner adapter, so the bundles of a failed flush are the ones
\* the next flush offers, and close offers whatever the buffer holds.
C39_FailedFlushKeepsBuffer ==
    /\ [](bState = "open" => Len(bBuffer) <= bSize)
    /\ [][/\ \A w \in Workers :
                FlushFails(w) => (bBuffer' = bBuffer /\ bInner' = bInner)
          /\ (bState = "open" /\ Len(bBuffer) = bSize /\ bBuffer' # bBuffer) =>
                (bBuffer' = <<>> /\ bInner' = bInner \o bBuffer)
          /\ (bState = "open" /\ bState' = "closed_ok") =>
                bInner' = bInner \o bBuffer]_vars

\* after a failed flush a worker is about to flush the same full buffer again
C39_Witness ==
    /\ bErrs > 0
    /\ Len(bBuffer) = bSize
    /\ \E w \in Workers : bPc[w] = "flush"

(***************************************************************************)
(* Claims about the order of a joined collector (SpecJoin)                 *)
(***************************************************************************)
\* C40: iterating join(a, b) yields every item of a before any item of b,
\* whatever the kinds of a and b: draining the join gives what draining a
\* gives, followed by what draining b gives.
C40_JoinKeepsOrder ==
    jPc # "start" => Drained(jAB) = Drained(jA) \o Drained(jB)

(***************************************************************************)
(* Claims about the two write paths of a direct adapter (SpecSQL)          *)
(***************************************************************************)
\* C34: a bundle persisted through store_iter has the same column values as
\* the same bundle persisted through store: two rows written for the same
\* bundle agree, whichever path wrote them.
C34_WritePathsAgree ==
    \A i, j \in DOMAIN sDb.runs :
        sDb.runs[i].given = sDb.runs[j].given => sDb.runs[i].runtime = sDb.runs[j].runtime

(***************************************************************************)
(* Claims about the termination of ingest (SpecIngestFair)                 *)
(***************************************************************************)
\* C33: every call of ingest eventually returns, with metrics or with an
\* error, whatever the ingestor process does.
C33_IngestReturns == (iPc # "idle") ~> (iPc = "idle")

(***************************************************************************)
(* Claims about the shared direct adapter (SpecShared)                     *)
(***************************************************************************)
\* C31: at most one worker at a time is inside store or store_iter on the
\* underlying connection, and it is the one holding the lock; under the fair
\* mutex every worker that calls store or store_iter gets the lock and its
\* call completes.
C31_ExclusiveAndFair ==
    /\ [](/\ Cardinality(uInside) <= 1
          /\ \A w \in uInside : uLock = w)
    /\ \A w \in SharedWorkers :
          /\ (uPc[w] = "lock") ~> (uPc[w] = "inside")
          /\ (uPc[w] = "inside") ~> (uPc[w] = "idle")

\* one worker is inside store_iter while the two others wait for the lock
C31_Witness ==
    /\ uPc["w1"] = "inside" /\ uOp["w1"] = "store_iter"
    /\ uPc["w2"] = "lock"
    /\ uPc["w3"] = "lock"
    /\ uDone > 0

(***************************************************************************)
(* Claims about failed claims and releases (SpecFS)                        *)
(***************************************************************************)
\* host h's claim rename fails in this step: the disk is as it was
ClaimFails(h) == fsPc[h] = "rename" /\ fsPc'[h] # "rename" /\ disk' = disk

\* host h's release rename fails in this step
ReleaseFails(h) == receipts'[h] # receipts[h] /\ fsPc'[h] = fsPc[h] /\ disk' = disk

\* C32: a failed claim yields nothing for its path and the collector goes on
\* with the paths that remain; a failed release drops the receipt and changes
\* nothing else of the host; and a collector between two paths can always
\* take its next turn.
C32_FailuresAreNotFatal ==
    /\ [](\A h \in Hosts : fsPc[h] = "next" => ENABLED (FSPop(h) \/ FSExhausted(h)))
    /\ [][\A h \in Hosts :
            /\ ClaimFails(h) =>
                  /\ yielded'[h] = yielded[h]
                  /\ receipts'[h] = receipts[h]
                  /\ colPaths'[h] = colPaths[h]
                  /\ fsPc'[h] = "next"
            /\ ReleaseFails(h) =>
                  /\ yielded'[h] = yielded[h]
                  /\ colPaths'[h] = colPaths[h]
                  /\ released'[h] = released[h] \cup (receipts[h] \ receipts'[h])]_vars

\* one host's claim failed and it went on to the end of its paths; another
\* host's release failed and left the [processing]_ file behind
C32_Witness ==
    /\ \E h \in Hosts :
          /\ fsPc[h] = "none"
          /\ \E path \in attempted[h] : ProcessingName(path) \notin yielded[h]
    /\ \E h \in Hosts : \E path \in released[h] : path \in disk

(***************************************************************************)
(* Claims about the id lookups of a run (SpecLookup)                       *)
(***************************************************************************)
\* C36: after the filter, the preflight and init, in that order, every
\* (solver, test set) pair a task looks up has its ids in the adapter's maps:
\* no lookup panics.
C36_LookupsSucceed ==
    /\ rPc # "panicked"
    /\ rPc = "running" =>
          \A test \in rCfg.tests : \A solver \in rCfg.selected[test] :
              solver \in rIds.solvers /\ test \in rIds.tests
    /\ \A pair \in rLooked : pair[1] \in rIds.solvers /\ pair[2] \in rIds.tests

\* both options removed a name, a test set fell back to all solvers, and a
\* task of that set has looked its names up
C36_Witness ==
    /\ rPc = "running"
    /\ rArgs.solvers.given /\ rArgs.solvers.names = {"s1"}
    /\ rArgs.tests.given /\ rArgs.tests.names = {"tb"}
    /\ rLooked = {<<"s2", "ta">>}

(***************************************************************************)
(* Claims about test sets that share input files (SpecSets)                *)
(***************************************************************************)
\* C37: when two test sets enumerate the same files, every file is run for
\* both: once the collectors are drained each of them has yielded every file.
C37_EverySetRunsEveryFile ==
    (vPc = "run" /\ \A set \in TestSets : vPaths[set] = <<>>) =>
        \A set \in TestSets : \A file \in SetFiles : ProcessingName(file) \in vYield[set]

(***************************************************************************)
(* Claims about a run with piped output (SpecPipes)                        *)
(***************************************************************************)
\* C38: a solver that would finish within the timeout if its output were
\* drained is recorded through the normal-exit path, whatever it writes.
C38_DrainableRunExitsNormally ==
    (wPc = "done" /\ wChild.fits) => wRecorded = "exit"
====
